---- MODULE Spec2Model ----
(***************************************************************************)
(* Model of lockfile-guardian: the hook text merger (git-hooks module,     *)
(* concatenated into src/src/cli.ts), the hook directory resolver and the  *)
(* fingerprint store (utils, src/unnamed/part_004) and the change detector *)
(* (src/src/guardian.ts, deferred variant).                                *)
(*                                                                         *)
(* Text representation.  A JavaScript string is modelled by the sequence   *)
(* of its lines (what split("\n") returns, so a string always has at least *)
(* one line and "" is the single empty line); a line is a sequence of      *)
(* tokens, each token an indivisible piece of text.  The empty sequence    *)
(* in the place of a string stands for null / undefined / no file.         *)
(***************************************************************************)
EXTENDS Integers, Sequences, FiniteSets, TLC

VARIABLES
  coreHooksPath,  \* value of `git config --get core.hooksPath` ("" = unset)
  dirs,           \* the hook directories that exist on disk
  hookFiles,      \* hook directory -> slot -> file content (Null = no file)
  before,         \* history: slot files of the active directory before the last installGitHooks
  hist,           \* history: the hook operations run so far, each with the dialect it used
  layout,         \* <<main project directory, other project directory>> of the repository
  lockfiles,      \* project directory -> lockfile name -> content id (0 = no file)
  store,          \* the node .git/lockfile-guardian: absent, a file, or a directory of files
  out,            \* observable result of the last guardian operation
  initLock,       \* history: project -> a FIRST_RUN check stored the hash and the lockfiles are untouched since
  pkg             \* project directory -> its package.json: absent, unparseable, or its postinstall script

vars == <<coreHooksPath, dirs, hookFiles, before, hist, layout, lockfiles, store, out, initLock,
          pkg>>

hookVars == <<coreHooksPath, dirs, hookFiles, before, hist>>
guardVars == <<layout, lockfiles, store, out, initLock>>

----------------------------------------------------------------------------
(* Bounds *)

MaxLines == 3        \* longest initial hook file, in lines
NumContents == 2     \* distinct lockfile contents
MaxOps == 3          \* hook operations in one run (repeated install / uninstall grows a file without bound)

----------------------------------------------------------------------------
(* Text *)

Null == <<>>
EmptyLine == <<>>
EmptyStr == <<EmptyLine>>

HOOK_SHEBANG == <<"#!", "/bin/sh">>
HOOK_COMMAND == "npx lockfile-guardian check --hook"
COMMENT_TEXT == "# Lockfile Guardian"

HookLine == <<HOOK_COMMAND>>
CommentLine == <<COMMENT_TEXT>>

\* the lines initial hook files are made of
LineAlphabet ==
  { EmptyLine,
    <<" ">>,
    HOOK_SHEBANG,
    <<"#!", "/bin/bash">>,
    <<"echo hi">>,
    HookLine,
    <<"echo ", HOOK_COMMAND>>,
    CommentLine,
    <<"#", COMMENT_TEXT, " notes">> }

RECURSIVE SeqsUpTo(_, _)
SeqsUpTo(S, n) ==
  IF n = 0 THEN {<<>>}
  ELSE LET shorter == SeqsUpTo(S, n - 1)
       IN shorter \cup {Append(s, x) : s \in {t \in shorter : Len(t) = n - 1}, x \in S}

\* every string of 1..MaxLines lines
Contents == SeqsUpTo(LineAlphabet, MaxLines) \ {Null}

IsWhitespace(tok) == tok = " "

\* String.prototype.includes on one line
includes(line, text) == \E i \in 1..Len(line) : line[i] = text

\* String.prototype.startsWith("#!") on one line
startsWithShebang(line) == line # <<>> /\ Head(line) = "#!"

IsBlankLine(line) == \A i \in 1..Len(line) : IsWhitespace(line[i])

RECURSIVE trimStartLine(_)
trimStartLine(line) ==
  IF line # <<>> /\ IsWhitespace(Head(line)) THEN trimStartLine(Tail(line)) ELSE line

RECURSIVE trimEndLine(_)
trimEndLine(line) ==
  IF line # <<>> /\ IsWhitespace(line[Len(line)])
  THEN trimEndLine(SubSeq(line, 1, Len(line) - 1)) ELSE line

RECURSIVE dropLeadingBlank(_)
dropLeadingBlank(c) ==
  IF c # <<>> /\ IsBlankLine(Head(c)) THEN dropLeadingBlank(Tail(c)) ELSE c

RECURSIVE dropTrailingBlank(_)
dropTrailingBlank(c) ==
  IF c # <<>> /\ IsBlankLine(c[Len(c)])
  THEN dropTrailingBlank(SubSeq(c, 1, Len(c) - 1)) ELSE c

\* String.prototype.trim on a whole string: newlines are whitespace too
trim(c) ==
  LET a == dropTrailingBlank(dropLeadingBlank(c))
  IN IF a = <<>> THEN EmptyStr
     ELSE LET b == [a EXCEPT ![1] = trimStartLine(@)]
          IN [b EXCEPT ![Len(b)] = trimEndLine(@)]

\* lines.findIndex(line => line.startsWith("#!")), 1-based, 0 when there is none
RECURSIVE findShebangFrom(_, _)
findShebangFrom(lines, i) ==
  IF i > Len(lines) THEN 0
  ELSE IF startsWithShebang(lines[i]) THEN i
  ELSE findShebangFrom(lines, i + 1)

\* a search that never finds an interpreter directive
findShebangIndex_none(lines) == 0

findShebangIndex(lines) == findShebangFrom(lines, 1)

----------------------------------------------------------------------------
(* Hook text merger *)

\* createHookContent without the "already present" test
createHookContent_alwaysInsert(existingContent, isHusky) ==
  IF existingContent # Null /\ existingContent # EmptyStr /\ trim(existingContent) # EmptyStr
  THEN LET lines == existingContent
       IN IF isHusky
          THEN existingContent \o <<EmptyLine, CommentLine, HookLine>>
          ELSE LET shebangIndex == findShebangIndex(lines)
               IN IF shebangIndex >= 1
                  THEN SubSeq(lines, 1, shebangIndex)
                       \o <<EmptyLine, CommentLine, HookLine>>
                       \o SubSeq(lines, shebangIndex + 1, Len(lines))
                  ELSE <<HOOK_SHEBANG, EmptyLine, CommentLine, HookLine>> \o lines
  ELSE IF isHusky
       THEN <<CommentLine, HookLine, EmptyLine>>
       ELSE <<HOOK_SHEBANG, EmptyLine, CommentLine, HookLine, EmptyLine>>

createHookContent(existingContent, isHusky) ==
  IF existingContent # Null /\ existingContent # EmptyStr /\ trim(existingContent) # EmptyStr
  THEN LET lines == existingContent
       IN IF \E i \in 1..Len(lines) : includes(lines[i], HOOK_COMMAND)
          THEN existingContent
          ELSE IF isHusky
          THEN existingContent \o <<EmptyLine, CommentLine, HookLine>>
          ELSE LET shebangIndex == findShebangIndex(lines)
               IN IF shebangIndex >= 1
                  THEN SubSeq(lines, 1, shebangIndex)
                       \o <<EmptyLine, CommentLine, HookLine>>
                       \o SubSeq(lines, shebangIndex + 1, Len(lines))
                  ELSE <<HOOK_SHEBANG, EmptyLine, CommentLine, HookLine>> \o lines
  ELSE IF isHusky
       THEN <<CommentLine, HookLine, EmptyLine>>
       ELSE <<HOOK_SHEBANG, EmptyLine, CommentLine, HookLine, EmptyLine>>

\* the predicate of lines.filter in removeHookContent
keepLine(line) == ~includes(line, HOOK_COMMAND) /\ ~includes(line, COMMENT_TEXT)

\* Array.prototype.filter with that predicate
RECURSIVE filterLines(_)
filterLines(lines) ==
  IF lines = <<>> THEN <<>>
  ELSE IF keepLine(Head(lines)) THEN <<Head(lines)>> \o filterLines(Tail(lines))
  ELSE filterLines(Tail(lines))

\* the result Null is the code's null: the file is to be deleted
removeHookContent(content, isHusky) ==
  LET filteredLines == filterLines(content)
      remainingContent == trim(filteredLines)
  IN IF isHusky
     THEN IF remainingContent = EmptyStr THEN Null ELSE filteredLines
     ELSE IF remainingContent = <<HOOK_SHEBANG>> \/ remainingContent = EmptyStr
          THEN Null ELSE filteredLines

----------------------------------------------------------------------------
(* Hook directory resolver *)

GIT_HOOKS == {"post-checkout", "post-merge", "post-rewrite"}

GitHooksDir == ".git/hooks"
HuskyDir == ".husky"
CustomHooksDir == "githooks"
HookDirNames == {GitHooksDir, HuskyDir, CustomHooksDir}

\* another spelling of the .husky directory in core.hooksPath
DotSlashHuskyDir == "./.husky"

\* the values core.hooksPath takes; "" is the unset key, for which git config fails
HooksPathValues == {"", HuskyDir, DotSlashHuskyDir, CustomHooksDir}

getGitHooksDir == GitHooksDir
getHuskyHooksDir == HuskyDir

\* path.resolve(gitRoot, p) of a relative path: directories are named by their normalized
\* root-relative path, so a leading ./ segment is dropped
resolveAtRoot(p) == IF p = DotSlashHuskyDir THEN HuskyDir ELSE p

getGitHooksPath(hooksPath) ==
  IF hooksPath # "" THEN resolveAtRoot(hooksPath) ELSE getGitHooksDir

isHuskyProject(existing, hooksPath) ==
  IF getHuskyHooksDir \notin existing THEN FALSE
  ELSE IF hooksPath # "" THEN resolveAtRoot(hooksPath) = resolveAtRoot(HuskyDir)
  ELSE FALSE

\* a resolver that selects .husky whenever that directory exists
getActiveHooksDir_huskyIfExists(existing, hooksPath) ==
  IF getHuskyHooksDir \in existing THEN getHuskyHooksDir
  ELSE getGitHooksPath(hooksPath)

getActiveHooksDir(existing, hooksPath) ==
  IF isHuskyProject(existing, hooksPath) THEN getHuskyHooksDir
  ELSE getGitHooksPath(hooksPath)

----------------------------------------------------------------------------
(* installGitHooks / uninstallGitHooks, run inside the repository *)

NoFiles == [s \in GIT_HOOKS |-> Null]

\* a slot loop that does not read the existing file
installSlot_ignoreExisting(file, isHusky) ==
  createHookContent(EmptyStr, isHusky)

\* the body of the slot loop of installGitHooks
installSlot(file, isHusky) ==
  LET existingContent == IF file # Null THEN file ELSE EmptyStr
  IN createHookContent(existingContent, isHusky)

\* the body of the slot loop of uninstallGitHooks
uninstallSlot(file, isHusky) ==
  IF file # Null THEN removeHookContent(file, isHusky) ELSE Null

\* an install that merges in the traditional dialect whatever the project is
InstallGitHooks_traditionalMerge ==
  LET isHusky == isHuskyProject(dirs, coreHooksPath)
      hooksDir == getActiveHooksDir(dirs, coreHooksPath)
  IN /\ Len(hist) < MaxOps
     /\ dirs' = dirs \cup {hooksDir}
     /\ hookFiles' = [hookFiles EXCEPT ![hooksDir] =
                        [s \in GIT_HOOKS |-> installSlot(@[s], FALSE)]]
     /\ before' = hookFiles[hooksDir]
     /\ hist' = Append(hist, <<"install", isHusky>>)
     /\ UNCHANGED <<coreHooksPath, guardVars, pkg>>

InstallGitHooks ==
  LET isHusky == isHuskyProject(dirs, coreHooksPath)
      hooksDir == getActiveHooksDir(dirs, coreHooksPath)
  IN /\ Len(hist) < MaxOps
     /\ dirs' = dirs \cup {hooksDir}
     /\ hookFiles' = [hookFiles EXCEPT ![hooksDir] =
                        [s \in GIT_HOOKS |-> installSlot(@[s], isHusky)]]
     /\ before' = hookFiles[hooksDir]
     /\ hist' = Append(hist, <<"install", isHusky>>)
     /\ UNCHANGED <<coreHooksPath, guardVars, pkg>>

UninstallGitHooks ==
  LET isHusky == isHuskyProject(dirs, coreHooksPath)
      hooksDir == getActiveHooksDir(dirs, coreHooksPath)
  IN /\ Len(hist) < MaxOps
     /\ hookFiles' = [hookFiles EXCEPT ![hooksDir] =
                        [s \in GIT_HOOKS |-> uninstallSlot(@[s], isHusky)]]
     /\ hist' = Append(hist, <<"uninstall", isHusky>>)
     /\ UNCHANGED <<coreHooksPath, dirs, before, guardVars, pkg>>

----------------------------------------------------------------------------
(* Paths: a path is the sequence of its characters *)

FsRoot == <<"/">>
GitRoot == <<"/", "r">>
ProjA == GitRoot \o <<"/", "a", "/", "b">>
ProjB == GitRoot \o <<"/", "a", "_", "b">>
ProjC == GitRoot \o <<"/", "c">>
\* a project directory that is not inside any git repository
ProjOut == <<"/", "x">>

\* the directories that contain a .git metadata directory
GitDirs == {GitRoot}

\* the repository layouts explored, <<main project, other project>>: one project, at the
\* root or in a subdirectory (Spec), and two projects (SpecStore)
SingleLayouts == {<<GitRoot, GitRoot>>, <<ProjA, ProjA>>}
Layouts == {<<GitRoot, ProjA>>, <<ProjA, GitRoot>>, <<ProjA, ProjB>>, <<ProjA, ProjC>>}

RECURSIVE lastSlash(_, _)
lastSlash(path, i) ==
  IF i = 0 THEN 0 ELSE IF path[i] = "/" THEN i ELSE lastSlash(path, i - 1)

\* path.resolve(dir, "..")
parentDir(dir) ==
  LET k == lastSlash(dir, Len(dir))
  IN IF k <= 1 THEN FsRoot ELSE SubSeq(dir, 1, k - 1)

RECURSIVE findGitRoot(_)
findGitRoot(currentDir) ==
  IF currentDir = FsRoot THEN Null
  ELSE IF currentDir \in GitDirs THEN currentDir
  ELSE IF parentDir(currentDir) = currentDir THEN Null
  ELSE findGitRoot(parentDir(currentDir))

isGitRepository(cwd) == findGitRoot(cwd) # Null

\* findGitRoot over any placement of `.git` entries: gitMeta maps a directory to what its
\* `.git` entry is, "none", "file" or "dir" (existsSync(gitDir) && statSync(gitDir).isDirectory())
RECURSIVE findGitRootFrom(_, _)
findGitRootFrom(gitMeta, currentDir) ==
  IF currentDir = FsRoot THEN Null
  ELSE IF gitMeta[currentDir] = "dir" THEN currentDir
  ELSE IF parentDir(currentDir) = currentDir THEN Null
  ELSE findGitRootFrom(gitMeta, parentDir(currentDir))

\* cwd is inside a repository, below its root
IsStrictSubdirPath(cwd) == isGitRepository(cwd) /\ cwd # findGitRoot(cwd)

\* the character class [a-zA-Z0-9-_] over the characters paths are made of
SafeChars == {"a", "b", "c", "r", "-", "_"}

\* one character of relativePath.replace(/[^a-zA-Z0-9-_]/g, "_")
safeChar(ch) == IF ch \in SafeChars THEN ch ELSE "_"

\* the storage path below .git/lockfile-guardian: <<>> is that node itself (legacy flat
\* path), <<name>> the file `name` inside it.  Defined for cwd inside a repository.
getGuardianDataPath(cwd) ==
  LET gitRoot == findGitRoot(cwd)
  IN IF cwd = gitRoot THEN <<>>
     ELSE LET afterRoot == SubSeq(cwd, Len(gitRoot) + 1, Len(cwd))
              relativePath == IF afterRoot # <<>> /\ Head(afterRoot) = "/"
                              THEN Tail(afterRoot) ELSE afterRoot
              safePath == [i \in 1..Len(relativePath) |-> safeChar(relativePath[i])]
          IN <<safePath>>

----------------------------------------------------------------------------
(* Lockfile detector *)

\* the descriptors listed with npm first
PACKAGE_MANAGERS_npmFirst ==
  << [name |-> "npm", lockFile |-> "package-lock.json", installCommand |-> "npm install"],
     [name |-> "yarn", lockFile |-> "yarn.lock", installCommand |-> "yarn install"],
     [name |-> "pnpm", lockFile |-> "pnpm-lock.yaml", installCommand |-> "pnpm install"] >>

PACKAGE_MANAGERS ==
  << [name |-> "pnpm", lockFile |-> "pnpm-lock.yaml", installCommand |-> "pnpm install"],
     [name |-> "yarn", lockFile |-> "yarn.lock", installCommand |-> "yarn install"],
     [name |-> "npm", lockFile |-> "package-lock.json", installCommand |-> "npm install"] >>

LockNames == {PACKAGE_MANAGERS[i].lockFile : i \in 1..Len(PACKAGE_MANAGERS)}

\* SHA-256 hex digest of a file content, as the one-line text written to the store
createSHA256Hash(content) == << <<ToString(content)>> >>

NoLockfile == [found |-> FALSE, packageManager |-> PACKAGE_MANAGERS[1], hash |-> Null]

\* files: lockfile name -> content id of the file in cwd, 0 when there is no such file
RECURSIVE findLockfileFrom(_, _)
findLockfileFrom(files, i) ==
  IF i > Len(PACKAGE_MANAGERS) THEN NoLockfile
  ELSE IF files[PACKAGE_MANAGERS[i].lockFile] # 0
       THEN [found |-> TRUE, packageManager |-> PACKAGE_MANAGERS[i],
             hash |-> createSHA256Hash(files[PACKAGE_MANAGERS[i].lockFile])]
       ELSE findLockfileFrom(files, i + 1)

findLockfile(files) == findLockfileFrom(files, 1)

----------------------------------------------------------------------------
(* File system node .git/lockfile-guardian *)

SafeNames == {getGuardianDataPath(d)[1] : d \in {ProjA, ProjB, ProjC}}

NoEntries == [n \in SafeNames |-> Null]
AbsentNode == [kind |-> "absent", data |-> Null, entries |-> NoEntries]
FileNode(text) == [kind |-> "file", data |-> text, entries |-> NoEntries]
DirNode(entries) == [kind |-> "dir", data |-> Null, entries |-> entries]

existsSync(node, path) ==
  IF path = <<>> THEN node.kind # "absent"
  ELSE node.kind = "dir" /\ node.entries[path[1]] # Null

\* fs calls return [node, value, threw]
fsResult(node, value, threw) == [node |-> node, value |-> value, threw |-> threw]

readFileSync(node, path) ==
  IF path = <<>>
  THEN IF node.kind = "file" THEN fsResult(node, node.data, FALSE)
       ELSE fsResult(node, Null, TRUE)                       \* ENOENT, EISDIR
  ELSE IF existsSync(node, path) THEN fsResult(node, node.entries[path[1]], FALSE)
       ELSE fsResult(node, Null, TRUE)                       \* ENOENT, ENOTDIR

writeFileSync(node, path, text) ==
  IF path = <<>>
  THEN IF node.kind = "dir" THEN fsResult(node, Null, TRUE)  \* EISDIR
       ELSE fsResult(FileNode(text), Null, FALSE)
  ELSE IF node.kind = "dir"
       THEN fsResult(DirNode([node.entries EXCEPT ![path[1]] = text]), Null, FALSE)
       ELSE fsResult(node, Null, TRUE)                       \* ENOENT, ENOTDIR

unlinkSync(node, path) ==
  IF path = <<>>
  THEN IF node.kind = "file" THEN fsResult(AbsentNode, Null, FALSE)
       ELSE fsResult(node, Null, TRUE)                       \* ENOENT, EISDIR / EPERM
  ELSE IF existsSync(node, path)
       THEN fsResult(DirNode([node.entries EXCEPT ![path[1]] = Null]), Null, FALSE)
       ELSE fsResult(node, Null, TRUE)                       \* ENOENT, ENOTDIR

----------------------------------------------------------------------------
(* Fingerprint store (guardian.ts) *)

\* storeCurrentHash without the test for a lockfile: it writes an empty fingerprint
storeCurrentHash_noLockfileTest(node, files, cwd) ==
  writeFileSync(node, getGuardianDataPath(cwd),
                IF findLockfile(files).found THEN findLockfile(files).hash ELSE EmptyStr)

\* results of the guardian functions: the node afterwards and whether the call threw
storeCurrentHash(node, files, cwd) ==
  LET lockfileInfo == findLockfile(files)
  IN IF ~lockfileInfo.found THEN fsResult(node, Null, FALSE)
     ELSE writeFileSync(node, getGuardianDataPath(cwd), lockfileInfo.hash)

getStoredHash(node, cwd) ==
  LET dataPath == getGuardianDataPath(cwd)
  IN IF ~existsSync(node, dataPath) THEN Null
     ELSE LET r == readFileSync(node, dataPath)
          IN IF r.threw THEN Null ELSE trim(r.value)

clearStoredHash(node, cwd) ==
  LET dataPath == getGuardianDataPath(cwd)
  IN IF existsSync(node, dataPath) THEN unlinkSync(node, dataPath)
     ELSE fsResult(node, Null, FALSE)

----------------------------------------------------------------------------
(* Messages: console output is a sequence of lines *)

SEPARATOR == <<"=====================================">>
MsgNoLockfile ==
  << <<"No lockfile found. Supported lockfiles: pnpm-lock.yaml, yarn.lock, package-lock.json">> >>
MsgNodeModules == << <<"Warning: node_modules is not in .gitignore">> >>
MsgInitialized == << <<"Lockfile Guardian initialized">> >>
MsgUpToDate == << <<"Dependencies are up to date">> >>
MsgChanged(lockfileName) == << <<"Lock file ", lockfileName, " has changed!">> >>
MsgAutoInstalling(pmName) == << <<"Auto-installing dependencies with ", pmName, "...">> >>
MsgUpdated == << <<"Dependencies updated successfully!">> >>
\* a failure report that does not name the install command
MsgInstallFailed_noCommand(installCommand) ==
  << <<"Failed to install dependencies. Please run manually:">> >>

MsgInstallFailed(installCommand) ==
  << <<"Failed to install dependencies. Please run manually:">>, <<"  ", installCommand>> >>
MsgHashUpdated == << <<"Lockfile Guardian: Dependencies hash updated">> >>
MsgCheckError == << <<"Error checking lockfile: ", "write failed">> >>
MsgPostInstallFailed == << <<"Lockfile Guardian post-install hook failed: ", "write failed">> >>

\* a warning box that does not name the install command
createWarningBox_noCommand(lockfileName, installCommand) ==
  << SEPARATOR,
     <<"DEPENDENCIES OUT OF DATE">>,
     SEPARATOR,
     <<"Lock file ", lockfileName, " has changed!">>,
     EmptyLine,
     <<"Run this command to update:">>,
     SEPARATOR >>

createWarningBox(lockfileName, installCommand) ==
  << SEPARATOR,
     <<"DEPENDENCIES OUT OF DATE">>,
     SEPARATOR,
     <<"Lock file ", lockfileName, " has changed!">>,
     EmptyLine,
     <<"Run this command to update:">>,
     <<"  ", installCommand>>,
     SEPARATOR >>

\* a log that ignores the silent option
log_ignoresSilent(message, silent) == message

\* log(message, silent): what reaches standard output
log(message, silent) == IF ~silent THEN message ELSE <<>>

\* a logWarning that prints nothing
logWarning_dropped(message) == <<>>

logWarning(message) == message
logError(message) == message

\* the configuration loadConfig returns: absent fields are false, checkNodeModules defaults to true
Configs == [autoInstall : BOOLEAN, silent : BOOLEAN, checkNodeModules : BOOLEAN]

----------------------------------------------------------------------------
(* Change detector: checkLockfile, deferred variant *)

checkResult(node, state, stdout, stderr, spawned, threw) ==
  [node |-> node, state |-> state, stdout |-> stdout, stderr |-> stderr,
   spawned |-> spawned, threw |-> threw]

\* checkLockfile with the comparison of the two hashes inverted
checkLockfile_invertedCompare(node, files, isHook, cwd, config, ignored, installOk) ==
  LET lockfileInfo == findLockfile(files)
      nmWarning == IF config.checkNodeModules /\ ~ignored
                   THEN logWarning(MsgNodeModules) ELSE <<>>
      storedHash == getStoredHash(node, cwd)
      currentHash == lockfileInfo.hash
      lockfileName == lockfileInfo.packageManager.lockFile
      installCommand == lockfileInfo.packageManager.installCommand
  IN IF ~lockfileInfo.found
     THEN checkResult(node, "NO_LOCKFILE", <<>>,
                      IF ~isHook THEN logError(MsgNoLockfile) ELSE <<>>, "", FALSE)
     ELSE IF storedHash = Null \/ storedHash = EmptyStr
     THEN LET w == storeCurrentHash(node, files, cwd)
          IN IF w.threw
             THEN checkResult(w.node, "FIRST_RUN", nmWarning, <<>>, "", TRUE)
             ELSE checkResult(w.node, "FIRST_RUN",
                              nmWarning \o (IF ~isHook THEN log(MsgInitialized, config.silent)
                                            ELSE <<>>),
                              <<>>, "", FALSE)
     ELSE IF storedHash # currentHash
     THEN checkResult(node, "UNCHANGED",
                      nmWarning \o (IF ~isHook THEN log(MsgUpToDate, config.silent) ELSE <<>>),
                      <<>>, "", FALSE)
     ELSE IF config.autoInstall
     THEN LET progress == nmWarning
                          \o log(MsgChanged(lockfileName), config.silent)
                          \o log(MsgAutoInstalling(lockfileInfo.packageManager.name),
                                 config.silent)
          IN IF installOk
             THEN checkResult(node, "CHANGED", progress \o log(MsgUpdated, config.silent),
                              <<>>, installCommand, FALSE)
             ELSE checkResult(node, "CHANGED", progress,
                              logError(MsgInstallFailed(installCommand)),
                              installCommand, FALSE)
     ELSE checkResult(node, "CHANGED",
                      nmWarning \o logWarning(createWarningBox(lockfileName, installCommand)),
                      <<>>, "", FALSE)

\* files: the lockfiles of cwd; ignored: isNodeModulesIgnored(cwd);
\* installOk: the install subprocess, if started, closes with exit code 0
checkLockfile(node, files, isHook, cwd, config, ignored, installOk) ==
  LET lockfileInfo == findLockfile(files)
      nmWarning == IF config.checkNodeModules /\ ~ignored
                   THEN logWarning(MsgNodeModules) ELSE <<>>
      storedHash == getStoredHash(node, cwd)
      currentHash == lockfileInfo.hash
      lockfileName == lockfileInfo.packageManager.lockFile
      installCommand == lockfileInfo.packageManager.installCommand
  IN IF ~lockfileInfo.found
     THEN checkResult(node, "NO_LOCKFILE", <<>>,
                      IF ~isHook THEN logError(MsgNoLockfile) ELSE <<>>, "", FALSE)
     ELSE IF storedHash = Null \/ storedHash = EmptyStr
     THEN LET w == storeCurrentHash(node, files, cwd)
          IN IF w.threw
             THEN checkResult(w.node, "FIRST_RUN", nmWarning, <<>>, "", TRUE)
             ELSE checkResult(w.node, "FIRST_RUN",
                              nmWarning \o (IF ~isHook THEN log(MsgInitialized, config.silent)
                                            ELSE <<>>),
                              <<>>, "", FALSE)
     ELSE IF storedHash = currentHash
     THEN checkResult(node, "UNCHANGED",
                      nmWarning \o (IF ~isHook THEN log(MsgUpToDate, config.silent) ELSE <<>>),
                      <<>>, "", FALSE)
     ELSE IF config.autoInstall
     THEN LET progress == nmWarning
                          \o log(MsgChanged(lockfileName), config.silent)
                          \o log(MsgAutoInstalling(lockfileInfo.packageManager.name),
                                 config.silent)
          IN IF installOk
             THEN checkResult(node, "CHANGED", progress \o log(MsgUpdated, config.silent),
                              <<>>, installCommand, FALSE)
             ELSE checkResult(node, "CHANGED", progress,
                              logError(MsgInstallFailed(installCommand)),
                              installCommand, FALSE)
     ELSE checkResult(node, "CHANGED",
                      nmWarning \o logWarning(createWarningBox(lockfileName, installCommand)),
                      <<>>, "", FALSE)

\* a confirmation that reports the update without storing the hash
runPostInstallHook_logOnly(node, files, cwd, config) ==
  IF ~findLockfile(files).found
  THEN checkResult(node, "NO_LOCKFILE", <<>>, <<>>, "", FALSE)
  ELSE checkResult(node, "CONFIRM", log(MsgHashUpdated, config.silent), <<>>, "", FALSE)

\* updateHashAfterInstall as called by runPostInstallHook, which catches what it throws
runPostInstallHook(node, files, cwd, config) ==
  LET lockfileInfo == findLockfile(files)
  IN IF ~lockfileInfo.found
     THEN checkResult(node, "NO_LOCKFILE", <<>>, <<>>, "", FALSE)
     ELSE LET w == storeCurrentHash(node, files, cwd)
          IN IF w.threw
             THEN checkResult(w.node, "CONFIRM", <<>>,
                              IF ~config.silent THEN logError(MsgPostInstallFailed) ELSE <<>>,
                              "", FALSE)
             ELSE checkResult(w.node, "CONFIRM", log(MsgHashUpdated, config.silent),
                              <<>>, "", FALSE)

----------------------------------------------------------------------------
(* Operations on the fingerprint, each run with a project directory as cwd *)

AllDirs == {GitRoot, ProjA, ProjB, ProjC, ProjOut}
Projects == {layout[1], layout[2]}

NoLockfiles == [n \in LockNames |-> 0]

\* out: the operation, its cwd, flag and configuration, and what it did: the branch taken (state), the
\* lines written to standard output and standard error, the install command spawned,
\* whether the function threw, and the exit code of the command
Idle == [op |-> "none", cwd |-> GitRoot, isHook |-> FALSE, silent |-> FALSE,
         autoInstall |-> FALSE, installOk |-> TRUE, state |-> "",
         stdout |-> <<>>, stderr |-> <<>>, spawned |-> "", threw |-> FALSE, exit |-> 0]

\* a check that stores the current hash itself once the install subprocess has exited 0
Check_storesAfterInstall(cwd, isHook, config, ignored, installOk) ==
  \E r \in {checkLockfile(store, lockfiles[cwd], isHook, cwd, config, ignored, installOk)} :
     /\ store' = IF r.state = "CHANGED" /\ r.spawned # "" /\ installOk
                 THEN storeCurrentHash(store, lockfiles[cwd], cwd).node ELSE r.node
     /\ out' = [op |-> "check", cwd |-> cwd, isHook |-> isHook, silent |-> config.silent,
                autoInstall |-> config.autoInstall, installOk |-> installOk,
                state |-> r.state, stdout |-> r.stdout,
                stderr |-> r.stderr \o (IF r.threw THEN logError(MsgCheckError) ELSE <<>>),
                spawned |-> r.spawned, threw |-> r.threw,
                exit |-> IF r.threw THEN 1 ELSE 0]
     /\ initLock' = [initLock EXCEPT ![cwd] = (r.state = "FIRST_RUN" /\ ~r.threw) \/ @]
     /\ UNCHANGED <<layout, lockfiles, hookVars, pkg>>

\* the `check` command: handleCheck around checkLockfile; installOk is recorded as the
\* exit status of the install subprocess
Check(cwd, isHook, config, ignored, installOk) ==
  \E r \in {checkLockfile(store, lockfiles[cwd], isHook, cwd, config, ignored, installOk)} :
     /\ store' = r.node
     /\ out' = [op |-> "check", cwd |-> cwd, isHook |-> isHook, silent |-> config.silent,
                autoInstall |-> config.autoInstall, installOk |-> installOk,
                state |-> r.state, stdout |-> r.stdout,
                stderr |-> r.stderr \o (IF r.threw THEN logError(MsgCheckError) ELSE <<>>),
                spawned |-> r.spawned, threw |-> r.threw,
                exit |-> IF r.threw THEN 1 ELSE 0]
     /\ initLock' = [initLock EXCEPT ![cwd] = (r.state = "FIRST_RUN" /\ ~r.threw) \/ @]
     /\ UNCHANGED <<layout, lockfiles, hookVars, pkg>>

\* the `post-install` command: handlePostInstall around runPostInstallHook
PostInstall(cwd, config) ==
  \E r \in {runPostInstallHook(store, lockfiles[cwd], cwd, config)} :
     /\ store' = r.node
     /\ out' = [op |-> "post-install", cwd |-> cwd, isHook |-> FALSE, silent |-> config.silent,
                autoInstall |-> config.autoInstall, installOk |-> TRUE,
                state |-> r.state, stdout |-> r.stdout,
                stderr |-> r.stderr, spawned |-> "", threw |-> FALSE, exit |-> 0]
     /\ UNCHANGED <<layout, lockfiles, initLock, hookVars, pkg>>

\* the exported storeCurrentHash
StoreCurrentHash(cwd) ==
  \E r \in {storeCurrentHash(store, lockfiles[cwd], cwd)} :
     /\ store' = r.node
     /\ out' = [Idle EXCEPT !.op = "store", !.cwd = cwd, !.threw = r.threw]
     /\ UNCHANGED <<layout, lockfiles, initLock, hookVars, pkg>>

\* the exported clearStoredHash
ClearStoredHash(cwd) ==
  \E r \in {IF isGitRepository(cwd) THEN clearStoredHash(store, cwd)
            ELSE fsResult(store, Null, TRUE)} :   \* getGuardianDataPath throws
     /\ store' = r.node
     /\ out' = [Idle EXCEPT !.op = "clear", !.cwd = cwd, !.threw = r.threw]
     /\ UNCHANGED <<layout, lockfiles, initLock, hookVars, pkg>>

\* the exported getStoredHash: state tells whether it returned null or a string, stdout
\* holds the string returned; outside a repository getGuardianDataPath throws
GetStoredHash(cwd) ==
  /\ out' = IF ~isGitRepository(cwd)
            THEN [Idle EXCEPT !.op = "getStoredHash", !.cwd = cwd, !.threw = TRUE]
            ELSE LET h == getStoredHash(store, cwd)
                 IN [Idle EXCEPT !.op = "getStoredHash", !.cwd = cwd,
                                 !.state = IF h = Null THEN "null" ELSE "string",
                                 !.stdout = h]
  /\ UNCHANGED <<layout, lockfiles, store, initLock, hookVars, pkg>>

\* directories below the filesystem root on the path findGitRoot walks
MaxDepth == 3

\* the directories /, /d, /d/d, ... down to MaxDepth components
RECURSIVE ChainDir(_)
ChainDir(n) ==
  IF n = 0 THEN FsRoot
  ELSE IF n = 1 THEN <<"/", "d">>
  ELSE ChainDir(n - 1) \o <<"/", "d">>

ChainDirs == {ChainDir(n) : n \in 0..MaxDepth}

\* the exported findGitRoot, called with cwd in a file system whose `.git` entries are
\* gitMeta: value is the directory returned, or Null
FindGitRoot(gitMeta, cwd) ==
  /\ out' = [op |-> "findGitRoot", cwd |-> cwd, gitMeta |-> gitMeta,
             value |-> findGitRootFrom(gitMeta, cwd)]
  /\ UNCHANGED <<layout, lockfiles, store, initLock, hookVars, pkg>>

\* the exported findLockfile: state is the name of the package manager found, or "none"
FindLockfile(cwd) ==
  \E r \in {findLockfile(lockfiles[cwd])} :
     /\ out' = [Idle EXCEPT !.op = "findLockfile", !.cwd = cwd,
                            !.state = IF r.found THEN r.packageManager.name ELSE "none"]
     /\ UNCHANGED <<layout, lockfiles, store, initLock, hookVars, pkg>>

\* the environment (git checkout, a package manager, the user) creates, rewrites or
\* deletes a lockfile of the main project
TouchLockfile(name, content) ==
  /\ lockfiles[layout[1]][name] # content
  /\ lockfiles' = [lockfiles EXCEPT ![layout[1]][name] = content]
  /\ initLock' = [initLock EXCEPT ![layout[1]] = FALSE]
  /\ UNCHANGED <<layout, store, out, hookVars, pkg>>

\* what the fingerprint file may hold when something other than the program wrote it: text
\* that is no digest, a digest surrounded by whitespace or followed by a newline, text of
\* whitespace only, and nothing
FingerprintTexts ==
  { << <<"corrupted-hash-data">> >>,
    << <<" ", "1", " ">> >>,
    << <<"2">>, EmptyLine >>,
    << <<" ">> >>,
    EmptyStr }

\* the environment (the user, another tool, an interrupted write) rewrites the
\* fingerprint file of cwd; no operation of the program has run since
EditFingerprint(cwd, text) ==
  \E w \in {writeFileSync(store, getGuardianDataPath(cwd), text)} :
     /\ ~w.threw
     /\ store' = w.node
     /\ out' = Idle
     /\ UNCHANGED <<layout, lockfiles, initLock, hookVars, pkg>>

----------------------------------------------------------------------------
(* package.json and its postinstall script (post-install.ts).  A script is the sequence *)
(* of its tokens: commands, " " and the separators; Null is no postinstall script.      *)

LOCKFILE_GUARDIAN_HOOK == "npx lockfile-guardian post-install"

PkgAbsent == [kind |-> "absent", postinstall |-> Null]
PkgInvalid == [kind |-> "invalid", postinstall |-> Null]
PkgJson(script) == [kind |-> "json", postinstall |-> script]

\* the postinstall scripts package.json files start with
Scripts ==
  { Null,
    <<"build">>,
    <<LOCKFILE_GUARDIAN_HOOK>>,
    <<"build", " ", "&&", " ", LOCKFILE_GUARDIAN_HOOK>>,
    <<LOCKFILE_GUARDIAN_HOOK, " ", "&&", " ", "build">>,
    <<"build", ";", " ", LOCKFILE_GUARDIAN_HOOK>> }

MsgPkgNotFound == "package.json not found in current directory"
MsgPkgParseFailed == "Failed to read or parse package.json: Unexpected token"
MsgAlreadyConfigured == "Lockfile Guardian post-install hook is already configured"
MsgAddedToExisting == "Added Lockfile Guardian hook to existing postinstall script"
MsgCreatedScript == "Created postinstall script with Lockfile Guardian hook"
MsgNothingToUninstall == "package.json not found - nothing to uninstall"
MsgNoPostinstall == "No postinstall script found - nothing to uninstall"
MsgHookNotFound == "Lockfile Guardian hook not found in postinstall script"
MsgRemovedScript == "Removed postinstall script (was only containing Lockfile Guardian hook)"
MsgRemovedHook == "Removed Lockfile Guardian hook from postinstall script"
MsgNotInRepository == "Not in a git repository"
MsgWriteFailed == "ENOENT: no such file or directory"

\* results of the package.json functions: the file afterwards, whether the call threw,
\* whether it reported an error without throwing, and the message thrown or logged
pkgResult(p, threw, failed, message) ==
  [pkg |-> p, threw |-> threw, failed |-> failed, message |-> message]

\* an install that appends the hook without looking for it first
installPostInstallHook_alwaysAppends(p) ==
  IF p.kind = "absent" THEN pkgResult(p, TRUE, FALSE, MsgPkgNotFound)
  ELSE IF p.kind = "invalid" THEN pkgResult(p, TRUE, FALSE, MsgPkgParseFailed)
  ELSE IF p.postinstall # Null
  THEN pkgResult(PkgJson(p.postinstall \o <<" ", "&&", " ", LOCKFILE_GUARDIAN_HOOK>>),
                 FALSE, FALSE, MsgAddedToExisting)
  ELSE pkgResult(PkgJson(<<LOCKFILE_GUARDIAN_HOOK>>), FALSE, FALSE, MsgCreatedScript)

installPostInstallHook(p) ==
  IF p.kind = "absent" THEN pkgResult(p, TRUE, FALSE, MsgPkgNotFound)
  ELSE IF p.kind = "invalid" THEN pkgResult(p, TRUE, FALSE, MsgPkgParseFailed)
  ELSE LET currentPostInstall == p.postinstall
       IN IF currentPostInstall # Null /\ includes(currentPostInstall, LOCKFILE_GUARDIAN_HOOK)
          THEN pkgResult(p, FALSE, FALSE, MsgAlreadyConfigured)
          ELSE IF currentPostInstall # Null
          THEN pkgResult(PkgJson(currentPostInstall
                                  \o <<" ", "&&", " ", LOCKFILE_GUARDIAN_HOOK>>),
                         FALSE, FALSE, MsgAddedToExisting)
          ELSE pkgResult(PkgJson(<<LOCKFILE_GUARDIAN_HOOK>>), FALSE, FALSE, MsgCreatedScript)

\* the first index >= i of a token that is not whitespace (Len + 1 when there is none)
RECURSIVE skipWhitespace(_, _)
skipWhitespace(script, i) ==
  IF i <= Len(script) /\ IsWhitespace(script[i]) THEN skipWhitespace(script, i + 1) ELSE i

\* the first index of the whitespace run that ends just before i
RECURSIVE whitespaceStart(_, _)
whitespaceStart(script, i) ==
  IF i > 1 /\ IsWhitespace(script[i - 1]) THEN whitespaceStart(script, i - 1) ELSE i

\* script[j] is an && that the hook command follows, after optional whitespace
andThenHook(script, j) ==
  /\ script[j] = "&&"
  /\ skipWhitespace(script, j + 1) <= Len(script)
  /\ script[skipWhitespace(script, j + 1)] = LOCKFILE_GUARDIAN_HOOK

\* replace(/\s*&&\s*HOOK/, ""): the first match only
removeAndHook(script) ==
  LET matches == {j \in 1..Len(script) : andThenHook(script, j)}
  IN IF matches = {} THEN script
     ELSE LET j == CHOOSE m \in matches : \A n \in matches : m <= n
          IN SubSeq(script, 1, whitespaceStart(script, j) - 1)
             \o SubSeq(script, skipWhitespace(script, j + 1) + 1, Len(script))

\* replace(/^HOOK\s*&&\s*/, "")
removeHookAnd(script) ==
  IF /\ script # <<>> /\ script[1] = LOCKFILE_GUARDIAN_HOOK
     /\ skipWhitespace(script, 2) <= Len(script)
     /\ script[skipWhitespace(script, 2)] = "&&"
  THEN SubSeq(script, skipWhitespace(script, skipWhitespace(script, 2) + 1), Len(script))
  ELSE script

\* replace(/^HOOK$/, "")
removeHookAlone(script) == IF script = <<LOCKFILE_GUARDIAN_HOOK>> THEN <<>> ELSE script

uninstallPostInstallHook(p) ==
  IF p.kind = "absent" THEN pkgResult(p, FALSE, FALSE, MsgNothingToUninstall)
  ELSE IF p.kind = "invalid" THEN pkgResult(p, FALSE, TRUE, MsgPkgParseFailed)
  ELSE IF p.postinstall = Null THEN pkgResult(p, FALSE, FALSE, MsgNoPostinstall)
  ELSE LET currentPostInstall == p.postinstall
       IN IF ~includes(currentPostInstall, LOCKFILE_GUARDIAN_HOOK)
          THEN pkgResult(p, FALSE, FALSE, MsgHookNotFound)
          ELSE LET newPostInstall ==
                     trimEndLine(trimStartLine(
                       removeHookAlone(removeHookAnd(removeAndHook(currentPostInstall)))))
               IN IF newPostInstall = <<>>
                  THEN pkgResult(PkgJson(Null), FALSE, FALSE, MsgRemovedScript)
                  ELSE pkgResult(PkgJson(newPostInstall), FALSE, FALSE, MsgRemovedHook)

isPostInstallHookInstalled(p) ==
  p.kind = "json" /\ p.postinstall # Null /\ includes(p.postinstall, LOCKFILE_GUARDIAN_HOOK)

\* the order in which the slot loops visit GIT_HOOKS
HookOrder == <<"post-checkout", "post-merge", "post-rewrite">>
slotIndex(s) == CHOOSE i \in 1..Len(HookOrder) : HookOrder[i] = s

\* installGitHooks when a file operation on the slot `failing` throws (the path is a
\* directory, or the file or the hooks directory is not writable): the error leaves the
\* loop and the function
InstallGitHooksFailing(failing) ==
  LET isHusky == isHuskyProject(dirs, coreHooksPath)
      hooksDir == getActiveHooksDir(dirs, coreHooksPath)
  IN /\ Len(hist) < MaxOps
     /\ dirs' = dirs \cup {hooksDir}
     /\ hookFiles' = [hookFiles EXCEPT ![hooksDir] =
                        [s \in GIT_HOOKS |-> IF slotIndex(s) < slotIndex(failing)
                                             THEN installSlot(@[s], isHusky) ELSE @[s]]]
     /\ before' = hookFiles[hooksDir]
     /\ hist' = Append(hist, <<"install-failed", isHusky>>)
     /\ out' = [Idle EXCEPT !.op = "installGitHooks", !.state = failing, !.threw = TRUE]
     /\ UNCHANGED <<coreHooksPath, layout, lockfiles, store, initLock, pkg>>

\* uninstallGitHooks when reading, writing or deleting the existing file of the slot
\* `failing` throws
UninstallGitHooksFailing(failing) ==
  LET isHusky == isHuskyProject(dirs, coreHooksPath)
      hooksDir == getActiveHooksDir(dirs, coreHooksPath)
  IN /\ Len(hist) < MaxOps
     /\ hookFiles[hooksDir][failing] # Null
     /\ hookFiles' = [hookFiles EXCEPT ![hooksDir] =
                        [s \in GIT_HOOKS |-> IF slotIndex(s) < slotIndex(failing)
                                             THEN uninstallSlot(@[s], isHusky) ELSE @[s]]]
     /\ hist' = Append(hist, <<"uninstall-failed", isHusky>>)
     /\ out' = [Idle EXCEPT !.op = "uninstallGitHooks", !.state = failing, !.threw = TRUE]
     /\ UNCHANGED <<coreHooksPath, dirs, before, layout, lockfiles, store, initLock, pkg>>

\* the exported installPostInstallHook, called with cwd: a thrown error is recorded in
\* stderr with threw set
InstallPostInstallHook(cwd) ==
  \E i \in {installPostInstallHook(pkg[cwd])} :
     /\ pkg' = [pkg EXCEPT ![cwd] = i.pkg]
     /\ out' = [Idle EXCEPT !.op = "installPostInstallHook", !.cwd = cwd,
                            !.stdout = IF i.threw THEN <<>> ELSE << <<i.message>> >>,
                            !.stderr = IF i.threw THEN << <<i.message>> >> ELSE <<>>,
                            !.threw = i.threw]
     /\ UNCHANGED <<layout, lockfiles, store, initLock, hookVars>>

\* the exported uninstallPostInstallHook, called with cwd
UninstallPostInstallHook(cwd) ==
  \E u \in {uninstallPostInstallHook(pkg[cwd])} :
     /\ pkg' = [pkg EXCEPT ![cwd] = u.pkg]
     /\ out' = [Idle EXCEPT !.op = "uninstallPostInstallHook", !.cwd = cwd,
                            !.stdout = IF u.failed THEN <<>> ELSE << <<u.message>> >>,
                            !.stderr = IF u.failed THEN << <<u.message>> >> ELSE <<>>,
                            !.threw = u.threw]
     /\ UNCHANGED <<layout, lockfiles, store, initLock, hookVars>>

\* the exported isPostInstallHookInstalled: state is its result
IsPostInstallHookInstalled(cwd) ==
  /\ out' = [Idle EXCEPT !.op = "isPostInstallHookInstalled", !.cwd = cwd,
                         !.state = IF isPostInstallHookInstalled(pkg[cwd])
                                   THEN "true" ELSE "false"]
  /\ UNCHANGED <<layout, lockfiles, store, initLock, hookVars, pkg>>

----------------------------------------------------------------------------
(* Commands install, install-git-hooks and uninstall (cli.ts), run with cwd as working *)
(* directory and the default configuration                                              *)

DefaultConfig == [autoInstall |-> FALSE, silent |-> FALSE, checkNodeModules |-> TRUE]

MsgNoSupportedLockfile ==
  << <<"Error: No supported lockfile found.">>,
     <<"Supported lockfiles: ", "pnpm-lock.yaml, yarn.lock, package-lock.json">> >>
MsgNotGitRepository ==
  << <<"Error: Not a git repository. Please run this command in a git repository.">> >>
MsgPostHookActive == << <<"Post-install hook is now active">> >>
MsgGitHooksActive == << <<"Lockfile Guardian git hooks are now active">> >>
MsgUninstalled == << <<"Lockfile Guardian uninstalled successfully">> >>
MsgInstallError(op, message) ==
  IF op = "install" THEN << <<"Error installing post-install hook: ", message>> >>
  ELSE << <<"Error installing git hooks: ", message>> >>
MsgUninstallError(message) == << <<"Error uninstalling: ", message>> >>

\* what a package.json function wrote to standard output and to standard error
PkgLogLines(u) == IF ~u.failed /\ ~u.threw THEN log(<< <<u.message>> >>, FALSE) ELSE <<>>
PkgErrorLines(u) == IF u.failed THEN logError(<< <<u.message>> >>) ELSE <<>>

\* what a command leaves in out
cliOut(op, cwd, state, stdout, stderr, threw, exit) ==
  [Idle EXCEPT !.op = op, !.cwd = cwd, !.state = state, !.stdout = stdout,
               !.stderr = stderr, !.threw = threw, !.exit = exit]

\* `await checkLockfile(false, cwd)` at the end of both install handlers, inside their try
\* block: outside a repository getStoredHash throws in getGuardianDataPath
InitialCheck(op, cwd, progress) ==
  IF ~isGitRepository(cwd)
  THEN /\ out' = cliOut(op, cwd, "", progress,
                      logError(MsgInstallError(op, MsgNotInRepository)), TRUE, 1)
       /\ UNCHANGED <<store, initLock>>
  ELSE \E r \in {checkLockfile(store, lockfiles[cwd], FALSE, cwd, DefaultConfig, TRUE, TRUE)} :
         /\ store' = r.node
         /\ out' = cliOut(op, cwd, r.state, progress \o r.stdout,
                          r.stderr \o (IF r.threw THEN logError(MsgInstallError(op, MsgWriteFailed))
                                      ELSE <<>>),
                          r.threw, IF r.threw THEN 1 ELSE 0)
         /\ initLock' = [initLock EXCEPT ![cwd] = (r.state = "FIRST_RUN" /\ ~r.threw) \/ @]

\* the `install` command: handleInstall, which is handleInstallPostHooks
HandleInstall(cwd) ==
  /\ IF ~findLockfile(lockfiles[cwd]).found
     THEN /\ out' = cliOut("install", cwd, "", <<>>, logError(MsgNoSupportedLockfile), FALSE, 1)
          /\ UNCHANGED <<pkg, store, initLock>>
     ELSE \E i \in {installPostInstallHook(pkg[cwd])} :
            IF i.threw
            THEN /\ out' = cliOut("install", cwd, "", <<>>,
                                  logError(MsgInstallError("install", i.message)), TRUE, 1)
                 /\ UNCHANGED <<pkg, store, initLock>>
            ELSE /\ pkg' = [pkg EXCEPT ![cwd] = i.pkg]
                 /\ InitialCheck("install", cwd, PkgLogLines(i) \o log(MsgPostHookActive, FALSE))
  /\ UNCHANGED <<layout, lockfiles, hookVars>>

\* the `install-git-hooks` command: handleInstallGitHooks
HandleInstallGitHooks(cwd) ==
  /\ Len(hist) < MaxOps
  /\ IF ~isGitRepository(cwd)
     THEN /\ out' = cliOut("install-git-hooks", cwd, "", <<>>, logError(MsgNotGitRepository),
                           FALSE, 1)
          /\ UNCHANGED <<store, initLock, hookVars>>
     ELSE IF ~findLockfile(lockfiles[cwd]).found
     THEN /\ out' = cliOut("install-git-hooks", cwd, "", <<>>,
                           logError(MsgNoSupportedLockfile), FALSE, 1)
          /\ UNCHANGED <<store, initLock, hookVars>>
     ELSE LET isHusky == isHuskyProject(dirs, coreHooksPath)
              hooksDir == getActiveHooksDir(dirs, coreHooksPath)
          IN /\ dirs' = dirs \cup {hooksDir}
             /\ hookFiles' = [hookFiles EXCEPT ![hooksDir] =
                                [s \in GIT_HOOKS |-> installSlot(@[s], isHusky)]]
             /\ before' = hookFiles[hooksDir]
             /\ hist' = Append(hist, <<"install", isHusky>>)
             /\ UNCHANGED coreHooksPath
             /\ InitialCheck("install-git-hooks", cwd, log(MsgGitHooksActive, FALSE))
  /\ UNCHANGED <<layout, lockfiles, pkg>>

\* the `uninstall` command: handleUninstall
HandleUninstall(cwd) ==
  /\ Len(hist) < MaxOps
  /\ IF isGitRepository(cwd)
     THEN LET isHusky == isHuskyProject(dirs, coreHooksPath)
              hooksDir == getActiveHooksDir(dirs, coreHooksPath)
          IN /\ hookFiles' = [hookFiles EXCEPT ![hooksDir] =
                                [s \in GIT_HOOKS |-> uninstallSlot(@[s], isHusky)]]
             /\ hist' = Append(hist, <<"uninstall", isHusky>>)
     ELSE UNCHANGED <<hookFiles, hist>>
  /\ \E u \in {uninstallPostInstallHook(pkg[cwd])} :
       /\ pkg' = [pkg EXCEPT ![cwd] = u.pkg]
       /\ IF ~isGitRepository(cwd)
          THEN /\ out' = cliOut("uninstall", cwd, "", PkgLogLines(u),
                                PkgErrorLines(u)
                                  \o logError(MsgUninstallError(MsgNotInRepository)), TRUE, 1)
               /\ UNCHANGED store
          ELSE \E c \in {clearStoredHash(store, cwd)} :
                 /\ store' = c.node
                 /\ out' = IF c.threw
                           THEN cliOut("uninstall", cwd, "", PkgLogLines(u),
                                       PkgErrorLines(u)
                                         \o logError(MsgUninstallError(MsgWriteFailed)), TRUE, 1)
                           ELSE cliOut("uninstall", cwd, "",
                                       PkgLogLines(u) \o log(MsgUninstalled, FALSE),
                                       PkgErrorLines(u), FALSE, 0)
  /\ UNCHANGED <<coreHooksPath, dirs, before, layout, lockfiles, initLock>>

\* the configuration of a project whose package.json sets autoInstall
AutoConfig == [DefaultConfig EXCEPT !.autoInstall = TRUE]

\* the check a git hook starts: git runs the slot file, and with it the marker command
\* `npx lockfile-guardian check --hook`, in the root of the working tree, so cwd is the
\* repository root.  The step includes the install subprocess the check awaits: when the
\* package manager exits 0 it has run the postinstall script of package.json, and with it
\* runPostInstallHook if the script holds the hook.  config is what loadConfig reads from
\* the package.json of cwd (the defaults when there is none).
HookCheck(cwd, config, installOk) ==
  /\ cwd = findGitRoot(layout[1])
  /\ config # DefaultConfig => pkg[cwd].kind = "json"
  /\ \E s \in GIT_HOOKS :
       LET file == hookFiles[getActiveHooksDir(dirs, coreHooksPath)][s]
       IN \E i \in 1..Len(file) : includes(file[i], HOOK_COMMAND)
  /\ \E r \in {checkLockfile(store, lockfiles[cwd], TRUE, cwd, config, TRUE, installOk)} :
       /\ store' = IF r.spawned # "" /\ installOk /\ isPostInstallHookInstalled(pkg[cwd])
                   THEN runPostInstallHook(r.node, lockfiles[cwd], cwd, config).node
                   ELSE r.node
       /\ out' = [op |-> "check", cwd |-> cwd, isHook |-> TRUE, silent |-> config.silent,
                  autoInstall |-> config.autoInstall, installOk |-> installOk,
                  state |-> r.state, stdout |-> r.stdout,
                  stderr |-> r.stderr \o (IF r.threw THEN logError(MsgCheckError) ELSE <<>>),
                  spawned |-> r.spawned, threw |-> r.threw,
                  exit |-> IF r.threw THEN 1 ELSE 0]
       /\ initLock' = [initLock EXCEPT ![cwd] = (r.state = "FIRST_RUN" /\ ~r.threw) \/ @]
  /\ UNCHANGED <<layout, lockfiles, hookVars, pkg>>

----------------------------------------------------------------------------
(* Specifications *)

PkgIdle == pkg = [d \in AllDirs |-> PkgAbsent]

HooksIdle ==
  /\ coreHooksPath = ""
  /\ dirs = {GitHooksDir}
  /\ hookFiles = [d \in HookDirNames |-> NoFiles]
  /\ before = NoFiles
  /\ hist = <<>>

GuardIdle ==
  /\ layout = <<GitRoot, ProjA>>
  /\ lockfiles = [d \in AllDirs |-> NoLockfiles]
  /\ store = AbsentNode
  /\ out = Idle
  /\ initLock = [d \in AllDirs |-> FALSE]

\* hook files: the post-checkout slot of the active directory holds an arbitrary file (or
\* none), the other two slots have no file; the .husky directory may not exist yet
InitHooks ==
  /\ coreHooksPath \in HooksPathValues
  /\ dirs \in {{GitHooksDir, CustomHooksDir}, {GitHooksDir, CustomHooksDir, HuskyDir}}
  /\ \E X \in Contents \cup {Null} :
       hookFiles = [d \in HookDirNames |-> [s \in GIT_HOOKS |->
                      IF d = getActiveHooksDir(dirs, coreHooksPath) /\ d \in dirs
                         /\ s = "post-checkout"
                      THEN X ELSE Null]]
  /\ before = NoFiles
  /\ hist = <<>>
  /\ GuardIdle
  /\ PkgIdle

NextHooks == InstallGitHooks \/ UninstallGitHooks

SpecHooks == InitHooks /\ [][NextHooks]_vars

\* fingerprints: the main project has any lockfiles, the other project (if there is one) a
\* package-lock.json; the storage node does not exist yet or, in a repository with a
\* project in a subdirectory, is an empty directory
InitGuard(layouts) ==
  /\ layout \in layouts
  /\ \E files \in [LockNames -> 0..NumContents] :
       lockfiles = [d \in AllDirs |->
                      IF d = layout[1] THEN files
                      ELSE IF d = layout[2] THEN [NoLockfiles EXCEPT !["package-lock.json"] = 1]
                      ELSE NoLockfiles]
  /\ store \in {AbsentNode} \cup (IF \E d \in Projects : d # findGitRoot(d)
                                 THEN {DirNode(NoEntries)} ELSE {})
  /\ out = Idle
  /\ initLock = [d \in AllDirs |-> FALSE]
  /\ HooksIdle
  /\ PkgIdle

Next ==
  \/ \E cwd \in Projects, isHook \in BOOLEAN, config \in Configs :
       \E ignored \in IF config.checkNodeModules THEN BOOLEAN ELSE {TRUE},
          installOk \in IF config.autoInstall THEN BOOLEAN ELSE {TRUE} :
         Check(cwd, isHook, config, ignored, installOk)
  \/ \E cwd \in Projects, config \in {c \in Configs : ~c.autoInstall /\ c.checkNodeModules} :
       PostInstall(cwd, config)
  \/ \E cwd \in Projects : StoreCurrentHash(cwd)
  \/ \E cwd \in Projects : ClearStoredHash(cwd)
  \/ \E cwd \in Projects : FindLockfile(cwd)
  \/ \E name \in LockNames, content \in 0..NumContents : TouchLockfile(name, content)

\* one project, every input of every operation
Init == InitGuard(SingleLayouts)

Spec == Init /\ [][Next]_vars

\* two projects sharing the repository; checks run with the default configuration
InitStore == InitGuard(Layouts)

NextStore ==
  \/ \E cwd \in Projects : Check(cwd, FALSE, DefaultConfig, TRUE, TRUE)
  \/ \E cwd \in Projects : PostInstall(cwd, DefaultConfig)
  \/ \E cwd \in Projects : StoreCurrentHash(cwd)
  \/ \E cwd \in Projects : ClearStoredHash(cwd)
  \/ \E name \in LockNames, content \in 0..NumContents : TouchLockfile(name, content)

SpecStore == InitStore /\ [][NextStore]_vars

\* the commands, in one project: at the repository root, in a subdirectory, or in a
\* directory outside every repository
CliLayouts == {<<GitRoot, GitRoot>>, <<ProjA, ProjA>>, <<ProjOut, ProjOut>>}

\* the hook files the repository starts with
CliHookContents == {Null, <<HOOK_SHEBANG, <<"echo hi">>>>}

\* the package.json files the project starts with
PkgStates == {PkgAbsent, PkgInvalid} \cup {PkgJson(script) : script \in Scripts}

InitCli ==
  /\ layout \in CliLayouts
  /\ \E content \in 0..1 :
       lockfiles = [d \in AllDirs |->
                      IF d = layout[1] THEN [NoLockfiles EXCEPT !["package-lock.json"] = content]
                      ELSE NoLockfiles]
  /\ store \in {AbsentNode} \cup (IF IsStrictSubdirPath(layout[1])
                                 THEN {DirNode(NoEntries)} ELSE {})
  /\ out = Idle
  /\ initLock = [d \in AllDirs |-> FALSE]
  /\ \E p \in PkgStates : pkg = [d \in AllDirs |-> IF d = layout[1] THEN p ELSE PkgAbsent]
  /\ coreHooksPath \in {"", HuskyDir}
  /\ dirs \in {{GitHooksDir, CustomHooksDir}, {GitHooksDir, CustomHooksDir, HuskyDir}}
  /\ \E X \in CliHookContents :
       hookFiles = [d \in HookDirNames |-> [s \in GIT_HOOKS |->
                      IF d = getActiveHooksDir(dirs, coreHooksPath) /\ d \in dirs
                         /\ s = "post-checkout"
                      THEN X ELSE Null]]
  /\ before = NoFiles
  /\ hist = <<>>

NextCli ==
  \/ \E cwd \in Projects : HandleInstall(cwd)
  \/ \E cwd \in Projects : HandleInstallGitHooks(cwd)
  \/ \E cwd \in Projects : HandleUninstall(cwd)
  \/ \E cwd \in {d \in Projects : isGitRepository(d)}, isHook \in BOOLEAN :
       Check(cwd, isHook, DefaultConfig, TRUE, TRUE)
  \/ \E cwd \in {d \in Projects : isGitRepository(d)} : PostInstall(cwd, DefaultConfig)
  \/ \E content \in 0..NumContents : TouchLockfile("package-lock.json", content)

SpecCli == InitCli /\ [][NextCli]_vars

\* one project whose fingerprint file is also written by the environment
NextEdited ==
  \/ \E cwd \in Projects, isHook \in BOOLEAN, autoInstall \in BOOLEAN :
       Check(cwd, isHook, [DefaultConfig EXCEPT !.autoInstall = autoInstall], TRUE, TRUE)
  \/ \E cwd \in Projects : PostInstall(cwd, DefaultConfig)
  \/ \E cwd \in Projects, text \in FingerprintTexts : EditFingerprint(cwd, text)
  \/ \E content \in 0..NumContents : TouchLockfile("package-lock.json", content)

SpecEdited == Init /\ [][NextEdited]_vars

\* reading and clearing the fingerprint from any directory: the projects of a repository
\* and a directory outside every repository
InitRead == InitGuard(Layouts \cup {<<ProjOut, ProjOut>>})

NextRead ==
  \/ \E cwd \in Projects : GetStoredHash(cwd)
  \/ \E cwd \in Projects : ClearStoredHash(cwd)
  \/ \E cwd \in {d \in Projects : isGitRepository(d)} : StoreCurrentHash(cwd)
  \/ \E cwd \in {d \in Projects : isGitRepository(d)}, text \in FingerprintTexts :
       EditFingerprint(cwd, text)
  \/ \E name \in LockNames, content \in 0..NumContents : TouchLockfile(name, content)

SpecRead == InitRead /\ [][NextRead]_vars

\* findGitRoot alone, from every directory of a path with every placement of `.git` entries
NextRoot ==
  \E gitMeta \in [ChainDirs -> {"none", "file", "dir"}], cwd \in ChainDirs :
     FindGitRoot(gitMeta, cwd)

InitRoot ==
  /\ GuardIdle
  /\ HooksIdle
  /\ PkgIdle

SpecRoot == InitRoot /\ [][NextRoot]_vars

\* a project at the repository root with autoInstall on: the tool is installed by `install`
\* or by `install-git-hooks`, the lockfile changes, and git hooks start checks; a check
\* that a git hook can start is eventually run with an install subprocess that succeeds
InitAuto ==
  /\ layout = <<GitRoot, GitRoot>>
  /\ \E content \in 1..NumContents :
       lockfiles = [d \in AllDirs |->
                      IF d = GitRoot THEN [NoLockfiles EXCEPT !["package-lock.json"] = content]
                      ELSE NoLockfiles]
  /\ store = AbsentNode
  /\ out = Idle
  /\ initLock = [d \in AllDirs |-> FALSE]
  /\ \E script \in Scripts : pkg = [d \in AllDirs |-> IF d = GitRoot THEN PkgJson(script)
                                                     ELSE PkgAbsent]
  /\ coreHooksPath \in {"", HuskyDir}
  /\ dirs \in {{GitHooksDir, CustomHooksDir}, {GitHooksDir, CustomHooksDir, HuskyDir}}
  /\ \E X \in CliHookContents :
       hookFiles = [d \in HookDirNames |-> [s \in GIT_HOOKS |->
                      IF d = getActiveHooksDir(dirs, coreHooksPath) /\ d \in dirs
                         /\ s = "post-checkout"
                      THEN X ELSE Null]]
  /\ before = NoFiles
  /\ hist = <<>>

\* a hook-triggered check whose install subprocess, if it starts one, exits 0
HookCheckInstallOk == HookCheck(GitRoot, AutoConfig, TRUE)

NextAuto ==
  \/ \E cwd \in Projects : HandleInstall(cwd)
  \/ \E cwd \in Projects : HandleInstallGitHooks(cwd)
  \/ \E installOk \in BOOLEAN : HookCheck(GitRoot, AutoConfig, installOk)
  \/ \E content \in 1..NumContents : TouchLockfile("package-lock.json", content)

SpecAuto == InitAuto /\ [][NextAuto]_vars /\ WF_vars(HookCheckInstallOk)

\* a monorepo: two projects of one repository, each with a package.json and a
\* package-lock.json; the commands run in either project, git hooks start checks in the
\* repository root, and the lockfile of the first project changes
InitMono ==
  /\ layout \in Layouts
  /\ lockfiles = [d \in AllDirs |->
                    IF d \in Projects THEN [NoLockfiles EXCEPT !["package-lock.json"] = 1]
                    ELSE NoLockfiles]
  /\ store \in {AbsentNode, DirNode(NoEntries)}
  /\ out = Idle
  /\ initLock = [d \in AllDirs |-> FALSE]
  /\ pkg = [d \in AllDirs |-> IF d \in Projects THEN PkgJson(Null) ELSE PkgAbsent]
  /\ coreHooksPath \in {"", HuskyDir}
  /\ dirs = {GitHooksDir, CustomHooksDir, HuskyDir}
  /\ \E X \in CliHookContents :
       hookFiles = [d \in HookDirNames |-> [s \in GIT_HOOKS |->
                      IF d = getActiveHooksDir(dirs, coreHooksPath) /\ s = "post-checkout"
                      THEN X ELSE Null]]
  /\ before = NoFiles
  /\ hist = <<>>

NextMono ==
  \/ \E cwd \in Projects : HandleInstall(cwd)
  \/ \E cwd \in Projects : HandleInstallGitHooks(cwd)
  \/ \E cwd \in Projects : HandleUninstall(cwd)
  \/ \E cwd \in Projects : Check(cwd, FALSE, DefaultConfig, TRUE, TRUE)
  \/ HookCheck(GitRoot, DefaultConfig, TRUE)
  \/ \E content \in 1..NumContents : TouchLockfile("package-lock.json", content)

SpecMono == InitMono /\ [][NextMono]_vars

\* the slot loops with file operations that may fail
InitSlots ==
  /\ coreHooksPath \in {"", HuskyDir}
  /\ dirs \in {{GitHooksDir, CustomHooksDir}, {GitHooksDir, CustomHooksDir, HuskyDir}}
  /\ \E X \in CliHookContents :
       hookFiles = [d \in HookDirNames |-> [s \in GIT_HOOKS |->
                      IF d = getActiveHooksDir(dirs, coreHooksPath) /\ d \in dirs
                         /\ s = "post-checkout"
                      THEN X ELSE Null]]
  /\ before = NoFiles
  /\ hist = <<>>
  /\ GuardIdle
  /\ PkgIdle

NextSlots ==
  \/ InstallGitHooks
  \/ UninstallGitHooks
  \/ \E failing \in GIT_HOOKS : InstallGitHooksFailing(failing)
  \/ \E failing \in GIT_HOOKS : UninstallGitHooksFailing(failing)

SpecSlots == InitSlots /\ [][NextSlots]_vars

\* the package.json functions alone, on postinstall scripts of up to MaxCmds commands
\* joined by `&&` (with and without spaces around it) or by `;`
MaxCmds == 3
Commands == {"build", "test", LOCKFILE_GUARDIAN_HOOK}
Separators == {<<" ", "&&", " ">>, <<"&&">>, <<";", " ">>}

RECURSIVE ScriptsOf(_)
ScriptsOf(n) ==
  IF n = 1 THEN {<<c>> : c \in Commands}
  ELSE {script \o sep \o <<c>> : script \in ScriptsOf(n - 1), sep \in Separators,
                                 c \in Commands}

CompoundScripts == {Null} \cup UNION {ScriptsOf(n) : n \in 1..MaxCmds}

InitPkg ==
  /\ layout = <<GitRoot, GitRoot>>
  /\ lockfiles = [d \in AllDirs |-> NoLockfiles]
  /\ store = AbsentNode
  /\ out = Idle
  /\ initLock = [d \in AllDirs |-> FALSE]
  /\ HooksIdle
  /\ \E p \in {PkgAbsent, PkgInvalid} \cup {PkgJson(script) : script \in CompoundScripts} :
       pkg = [d \in AllDirs |-> IF d = GitRoot THEN p ELSE PkgAbsent]

NextPkg ==
  \/ \E cwd \in Projects : InstallPostInstallHook(cwd)
  \/ \E cwd \in Projects : UninstallPostInstallHook(cwd)
  \/ \E cwd \in Projects : IsPostInstallHookInstalled(cwd)

SpecPkg == InitPkg /\ [][NextPkg]_vars

----------------------------------------------------------------------------
(* Properties of the hook text merger, checked under SpecHooks *)

\* the slot files of the active hook directory
ActiveFiles == hookFiles[getActiveHooksDir(dirs, coreHooksPath)]

RECURSIVE CountInLine(_, _)
CountInLine(line, text) ==
  IF line = <<>> THEN 0
  ELSE (IF Head(line) = text THEN 1 ELSE 0) + CountInLine(Tail(line), text)

\* number of occurrences of the marker command in a file (0 for no file)
RECURSIVE MarkerCount(_)
MarkerCount(c) ==
  IF c = <<>> THEN 0 ELSE CountInLine(Head(c), HOOK_COMMAND) + MarkerCount(Tail(c))

ContainsMarker(c) == \E i \in 1..Len(c) : includes(c[i], HOOK_COMMAND)

\* a is a subsequence of b: the lines of a occur in b in the same relative order
RECURSIVE IsSubseq(_, _)
IsSubseq(a, b) ==
  IF a = <<>> THEN TRUE
  ELSE IF b = <<>> THEN FALSE
  ELSE IF Head(a) = Head(b) THEN IsSubseq(Tail(a), Tail(b))
  ELSE IsSubseq(a, Tail(b))

RECURSIVE SelectLines(_, _)
SelectLines(c, S) ==
  IF c = <<>> THEN <<>>
  ELSE IF Head(c) \in S THEN SelectLines(Tail(c), S)
  ELSE <<Head(c)>> \o SelectLines(Tail(c), S)

\* the lines of a file that are neither the marker line nor the comment line
ForeignLines(c) == SelectLines(c, {HookLine, CommentLine})

RECURSIVE NonBlankLines(_)
NonBlankLines(c) ==
  IF c = <<>> THEN <<>>
  ELSE IF IsBlankLine(Head(c)) THEN NonBlankLines(Tail(c))
  ELSE <<Head(c)>> \o NonBlankLines(Tail(c))

LastOp == hist[Len(hist)]
LastIsInstall == hist # <<>> /\ LastOp[1] = "install"
\* the last two operations were an install and then an uninstall
InstallThenUninstall ==
  Len(hist) >= 2 /\ hist[Len(hist) - 1][1] = "install" /\ LastOp[1] = "uninstall"

\* C1 as stated: after two installs in a row every slot file contains the marker command
\* exactly once, whatever the file held before.
C1_Original ==
  (Len(hist) >= 2 /\ hist[Len(hist) - 1][1] = "install" /\ LastIsInstall)
    => \A s \in GIT_HOOKS : MarkerCount(ActiveFiles[s]) = 1

\* C1 amended: when the file held the marker command at most once before an install
\* (no file, empty, or any other lines), it holds it exactly once after that install, and
\* so after any number of installs in a row, in either dialect.
C1_IdempotentInsertion ==
  LastIsInstall =>
    \A s \in GIT_HOOKS : MarkerCount(before[s]) <= 1 => MarkerCount(ActiveFiles[s]) = 1

C1_Witness ==
  /\ Len(hist) >= 2 /\ hist[Len(hist) - 1][1] = "install" /\ LastIsInstall
  /\ \E s \in GIT_HOOKS : /\ Len(ActiveFiles[s]) > 5
                          /\ MarkerCount(ActiveFiles[s]) = 1
                          /\ before[s] = ActiveFiles[s]

\* C2 as stated: an install into a file without the marker keeps every line of the file,
\* in the original order.
C2_Original ==
  LastIsInstall =>
    \A s \in GIT_HOOKS : ~ContainsMarker(before[s]) => IsSubseq(before[s], ActiveFiles[s])

\* C2 amended: an install into a file that has no marker and at least one non-blank line
\* keeps every line of the file, in the original order (a file of blank lines only is
\* replaced by the synthesized content).
C2_ContentPreservation ==
  LastIsInstall =>
    \A s \in GIT_HOOKS :
      (~ContainsMarker(before[s]) /\ before[s] # Null /\ trim(before[s]) # EmptyStr)
        => IsSubseq(before[s], ActiveFiles[s])

C2_Witness ==
  /\ LastIsInstall
  /\ \E s \in GIT_HOOKS : /\ Len(NonBlankLines(before[s])) >= 2
                          /\ ~ContainsMarker(before[s])
                          /\ ContainsMarker(ActiveFiles[s])
                          /\ findShebangIndex(before[s]) = 2

\* C3: after insert-then-remove a file that is kept holds neither the marker line nor the
\* comment line, and holds every foreign line of the original file (also one that merely
\* contains the marker or comment text), in the original order.
C3_CleanRemoval ==
  InstallThenUninstall =>
    \A s \in GIT_HOOKS :
      ActiveFiles[s] # Null =>
        /\ \A i \in 1..Len(ActiveFiles[s]) : ActiveFiles[s][i] \notin {HookLine, CommentLine}
        /\ IsSubseq(ForeignLines(before[s]), ActiveFiles[s])

\* C4: uninstallGitHooks after installGitHooks on a repository that had no hook files
\* leaves none of the three slot files on disk.
C4_EmptyFileDeletion ==
  (InstallThenUninstall /\ before = NoFiles) => ActiveFiles = NoFiles

\* a file none of whose lines contains the marker command or the comment text
IsForeign(c) == \A i \in 1..Len(c) : keepLine(c[i])

\* C5: round trip in one dialect: for a file X that mentions neither the marker nor the
\* comment, remove after insert gives the non-blank lines of X, no more and no fewer (a
\* deleted file has none).
C5_RoundTrip ==
  (InstallThenUninstall /\ hist[Len(hist) - 1][2] = LastOp[2]) =>
    \A s \in GIT_HOOKS :
      IsForeign(before[s]) => NonBlankLines(ActiveFiles[s]) = NonBlankLines(before[s])

----------------------------------------------------------------------------
(* Properties of the fingerprint store (SpecStore) and of the change detector (Spec) *)

IsStrictSubdir(d) == findGitRoot(d) # Null /\ d # findGitRoot(d)

\* this step is an operation run with cwd as working directory (lockfile edits by the
\* environment are the only steps that change lockfiles)
OperationIn(cwd) == lockfiles' = lockfiles /\ out'.op # "none" /\ out'.cwd = cwd

CheckIn(cwd) == OperationIn(cwd) /\ out'.op = "check"

HasLine(lines, line) == \E i \in 1..Len(lines) : lines[i] = line
HasWarningBlock(lines) == HasLine(lines, <<"DEPENDENCIES OUT OF DATE">>)

\* C6: no operation run in a project subdirectory P changes the fingerprint that
\* getStoredHash returns for another project subdirectory Q of the same repository.
C6_FingerprintIsolation ==
  [][\A P \in Projects, Q \in Projects :
       (P # Q /\ IsStrictSubdir(P) /\ IsStrictSubdir(Q) /\ OperationIn(P))
         => getStoredHash(store', Q) = getStoredHash(store, Q)]_vars

\* C7: for a project at the repository root and a project in a subdirectory, an operation
\* of one run while the other's fingerprint exists neither fails nor changes the other's
\* stored value.
C7_RootAndSubdirectory ==
  [][\A P \in Projects, Q \in Projects :
       (P # Q /\ GitRoot \in {P, Q} /\ OperationIn(P) /\ getStoredHash(store, Q) # Null)
         => /\ ~out'.threw
            /\ getStoredHash(store', Q) = getStoredHash(store, Q)]_vars

\* C8: findLockfile selects the highest-priority lockfile present, pnpm-lock.yaml before
\* yarn.lock before package-lock.json, and finds none exactly when none is present.
C8_PriorityOrder ==
  [][\A cwd \in Projects :
       (OperationIn(cwd) /\ out'.op = "findLockfile")
         => out'.state = (IF lockfiles[cwd]["pnpm-lock.yaml"] # 0 THEN "pnpm"
                          ELSE IF lockfiles[cwd]["yarn.lock"] # 0 THEN "yarn"
                          ELSE IF lockfiles[cwd]["package-lock.json"] # 0 THEN "npm"
                          ELSE "none")]_vars

C8_Witness ==
  /\ out.op = "findLockfile" /\ out.state = "pnpm"
  /\ \A n \in LockNames : lockfiles[out.cwd][n] # 0

\* C9: a check run with a lockfile present and no stored fingerprint takes the FIRST_RUN
\* branch, leaves the current hash stored as the fingerprint, reports 'initialized' (when
\* neither in hook mode nor silent), shows no warning block and starts no install.
C9_FirstRun ==
  [][\A cwd \in Projects :
       (CheckIn(cwd) /\ findLockfile(lockfiles[cwd]).found /\ getStoredHash(store, cwd) = Null)
         => /\ out'.state = "FIRST_RUN"
            /\ getStoredHash(store', cwd) = findLockfile(lockfiles[cwd]).hash
            /\ (~out'.isHook /\ ~out'.silent) => HasLine(out'.stdout, MsgInitialized[1])
            /\ ~HasWarningBlock(out'.stdout)
            /\ out'.spawned = ""]_vars

\* C10 as stated: once a FIRST_RUN check has stored the fingerprint, every later check of
\* that project made while its lockfiles are unmodified is UNCHANGED: it reports 'up to
\* date' outside hook mode, shows no warning block, starts no install, writes nothing.
C10_Original ==
  [][\A cwd \in Projects :
       (CheckIn(cwd) /\ initLock[cwd])
         => /\ out'.state = "UNCHANGED"
            /\ ~out'.isHook => HasLine(out'.stdout, MsgUpToDate[1])
            /\ ~HasWarningBlock(out'.stdout)
            /\ out'.spawned = ""
            /\ store' = store]_vars

\* C10 amended: once a FIRST_RUN check has stored the fingerprint, every later check of
\* that project made while its lockfiles are unmodified and the stored fingerprint is
\* still the one that was stored is UNCHANGED: it reports 'up to date' exactly when it is
\* neither in hook mode nor silent, shows no warning block, starts no install, writes
\* nothing.
C10_UnchangedAfterInit ==
  [][\A cwd \in Projects :
       (CheckIn(cwd) /\ initLock[cwd]
          /\ getStoredHash(store, cwd) = findLockfile(lockfiles[cwd]).hash)
         => /\ out'.state = "UNCHANGED"
            /\ (~out'.isHook /\ ~out'.silent) <=> HasLine(out'.stdout, MsgUpToDate[1])
            /\ ~HasWarningBlock(out'.stdout)
            /\ out'.spawned = ""
            /\ store' = store]_vars

C10_Witness ==
  /\ out.op = "check" /\ out.state = "UNCHANGED" /\ initLock[out.cwd]
  /\ HasLine(out.stdout, MsgUpToDate[1])
  /\ getStoredHash(store, out.cwd) = findLockfile(lockfiles[out.cwd]).hash

----------------------------------------------------------------------------
(* Properties of the CHANGED branch and of the confirmation, checked under Spec *)

\* the lockfile name the spec's priority rule selects among the files present
ExpectedLockfile(files) ==
  IF files["pnpm-lock.yaml"] # 0 THEN "pnpm-lock.yaml"
  ELSE IF files["yarn.lock"] # 0 THEN "yarn.lock"
  ELSE "package-lock.json"

\* the install command that goes with a lockfile name
ExpectedCommand(lockfileName) ==
  IF lockfileName = "pnpm-lock.yaml" THEN "pnpm install"
  ELSE IF lockfileName = "yarn.lock" THEN "yarn install"
  ELSE "npm install"

HasLockfile(cwd) == \E n \in LockNames : lockfiles[cwd][n] # 0

\* the hash of the lockfile the priority rule selects
CurrentHash(cwd) == createSHA256Hash(lockfiles[cwd][ExpectedLockfile(lockfiles[cwd])])

\* a fingerprint is stored for cwd and differs from the hash of its current lockfile
IsChanged(cwd) ==
  /\ HasLockfile(cwd)
  /\ getStoredHash(store, cwd) \notin {Null, EmptyStr}
  /\ getStoredHash(store, cwd) # CurrentHash(cwd)

\* C11: a check with autoInstall off made while the stored fingerprint differs from the
\* current hash is CHANGED, prints the warning block with the line `Lock file <name> has
\* changed!` and the install command of the detected package manager (also in hook mode
\* and when silent), starts no subprocess and leaves the stored fingerprint as it was.
C11_ChangedWarns ==
  [][\A cwd \in Projects :
       (CheckIn(cwd) /\ ~out'.autoInstall /\ IsChanged(cwd))
         => LET name == ExpectedLockfile(lockfiles[cwd])
            IN /\ out'.state = "CHANGED"
               /\ HasWarningBlock(out'.stdout)
               /\ HasLine(out'.stdout, <<"Lock file ", name, " has changed!">>)
               /\ HasLine(out'.stdout, <<"  ", ExpectedCommand(name)>>)
               /\ out'.spawned = ""
               /\ store' = store]_vars

C11_Witness ==
  /\ out.op = "check" /\ out.state = "CHANGED" /\ out.spawned = ""
  /\ out.isHook /\ out.silent
  /\ HasLine(out.stdout, <<"  ", "yarn install">>)
  /\ IsChanged(out.cwd)

\* this step is the post-install confirmation run in cwd
ConfirmIn(cwd) == OperationIn(cwd) /\ out'.op = "post-install"

\* C12: a check with autoInstall on made in the CHANGED state whose install subprocess
\* exits 0 starts the install command, reports success (unless silent) and does not write
\* the fingerprint; the confirmation run in the CHANGED state leaves the fingerprint equal
\* to the current lockfile hash.
C12_DeferredUpdate ==
  [][\A cwd \in Projects :
       /\ (CheckIn(cwd) /\ out'.autoInstall /\ out'.installOk /\ IsChanged(cwd))
            => /\ out'.state = "CHANGED"
               /\ out'.spawned = ExpectedCommand(ExpectedLockfile(lockfiles[cwd]))
               /\ ~out'.silent => HasLine(out'.stdout, MsgUpdated[1])
               /\ out'.stderr = <<>>
               /\ store' = store
       /\ (ConfirmIn(cwd) /\ IsChanged(cwd))
            => getStoredHash(store', cwd) = CurrentHash(cwd)]_vars

C12_Witness ==
  /\ out.op = "check" /\ out.autoInstall /\ out.installOk /\ out.spawned = "pnpm install"
  /\ HasLine(out.stdout, MsgUpdated[1])
  /\ IsChanged(out.cwd)

\* this step is a check, a store or a confirmation run in a cwd that has no lockfile
NoLockfileStep(cwd) ==
  OperationIn(cwd) /\ ~HasLockfile(cwd) /\ out'.op \in {"check", "store", "post-install"}

C14_Confirmation ==
  [][/\ \A cwd \in Projects :
          (ConfirmIn(cwd) /\ HasLockfile(cwd))
            => getStoredHash(store', cwd) = CurrentHash(cwd)
     /\ lockfiles' # lockfiles => store' = store]_vars

\* the line a check prints for a changed lockfile, alone or inside the warning block
ChangedLine(cwd) == <<"Lock file ", ExpectedLockfile(lockfiles[cwd]), " has changed!">>

\* after this step, which leaves the lockfiles alone, cwd is in the CHANGED state
StillChanged(cwd) ==
  /\ HasLockfile(cwd)
  /\ getStoredHash(store', cwd) \notin {Null, EmptyStr}
  /\ getStoredHash(store', cwd) # CurrentHash(cwd)

\* C15 as stated: while the lockfiles stay as they are, a project in the CHANGED state
\* leaves it by the confirmation only, and every check made in that state reports the
\* change.
C15_Original ==
  [][\A cwd \in Projects :
       (OperationIn(cwd) /\ IsChanged(cwd))
         => /\ ~StillChanged(cwd) => out'.op = "post-install"
            /\ out'.op = "check" => HasLine(out'.stdout, ChangedLine(cwd))]_vars

\* C15 amended: a check made in the CHANGED state leaves the project in CHANGED, whatever
\* autoInstall is and however the install ends: with autoInstall off it prints the warning
\* block, with autoInstall on it starts the install and, unless silent, prints the changed
\* line, and reports a failing install on standard error.  The confirmation made in the
\* CHANGED state ends it.
C15_ChangedPersists ==
  [][\A cwd \in Projects :
       /\ (CheckIn(cwd) /\ IsChanged(cwd))
            => /\ StillChanged(cwd)
               /\ out'.state = "CHANGED"
               /\ ~out'.autoInstall => (HasWarningBlock(out'.stdout) /\ out'.spawned = "")
               /\ out'.autoInstall =>
                    /\ out'.spawned # ""
                    /\ ~out'.silent <=> HasLine(out'.stdout, ChangedLine(cwd))
                    /\ ~out'.installOk <=> out'.stderr # <<>>
       /\ (ConfirmIn(cwd) /\ IsChanged(cwd)) => ~StillChanged(cwd)]_vars

C15_Witness ==
  /\ out.op = "check" /\ out.state = "CHANGED" /\ out.autoInstall /\ ~out.installOk
  /\ out.silent /\ out.stderr # <<>>
  /\ IsChanged(out.cwd)

----------------------------------------------------------------------------
(* Property of the hook directory resolver, checked under SpecHooks *)

\* core.hooksPath names the .husky directory of the repository root
NamesHusky(hooksPath) == hooksPath \in {".husky", "./.husky"}

\* the directory the ordered rule selects
ExpectedHooksDir ==
  IF ".husky" \in dirs /\ NamesHusky(coreHooksPath) THEN ".husky"
  ELSE IF coreHooksPath # "" THEN (IF NamesHusky(coreHooksPath) THEN ".husky" ELSE coreHooksPath)
  ELSE ".git/hooks"

\* C16: getActiveHooksDir is the directory of the ordered rule (.husky when it exists and
\* core.hooksPath resolves to it, else the resolved core.hooksPath when set, else
\* .git/hooks); installGitHooks writes the three slot files there and touches no other
\* directory, so an existing .husky that core.hooksPath does not name gets no file.
C16_ActiveHooksDir ==
  /\ getActiveHooksDir(dirs, coreHooksPath) = ExpectedHooksDir
  /\ LastIsInstall =>
       /\ \A s \in GIT_HOOKS : ContainsMarker(hookFiles[ExpectedHooksDir][s])
       /\ \A d \in HookDirNames \ {ExpectedHooksDir} : hookFiles[d] = NoFiles

C16_Witness ==
  /\ LastIsInstall /\ LastOp[2]
  /\ coreHooksPath = "./.husky"
  /\ \A s \in GIT_HOOKS : ContainsMarker(hookFiles[".husky"][s])
  /\ hookFiles[".git/hooks"] = NoFiles

----------------------------------------------------------------------------
(* Properties of the commands, checked under SpecCli *)

\* this step is the command op, run in cwd
CommandIn(op, cwd) == out' # out /\ out'.op = op /\ out'.cwd = cwd

\* a hook file holds the marker command or the marker comment
MentionsGuardian(file) ==
  \E i \in 1..Len(file) : includes(file[i], HOOK_COMMAND) \/ includes(file[i], COMMENT_TEXT)

\* the slots of the active hooks directory, after the step
ActiveSlotsAfter == hookFiles'[getActiveHooksDir(dirs', coreHooksPath')]

\* C17: after the uninstall command completes, no slot of the active hooks directory
\* holds the marker command or the marker comment, the project's fingerprint is absent,
\* and the postinstall script of package.json does not contain the post-install hook.
C17_SafeUninstall ==
  [][\A cwd \in Projects :
       CommandIn("uninstall", cwd) /\ out'.exit = 0
         => /\ \A s \in GIT_HOOKS : ~MentionsGuardian(ActiveSlotsAfter[s])
            /\ getStoredHash(store', cwd) = Null
            /\ ~isPostInstallHookInstalled(pkg'[cwd])]_vars

\* C18: after the install command succeeds in a repository with a supported lockfile,
\* each of the three slots of the active hooks directory contains the marker command and
\* the stored fingerprint equals the hash of the current lockfile.
C18_InstallEffect ==
  [][\A cwd \in Projects :
       /\ CommandIn("install", cwd) /\ out'.exit = 0
       /\ isGitRepository(cwd) /\ HasLockfile(cwd)
       => /\ \A s \in GIT_HOOKS : ContainsMarker(ActiveSlotsAfter[s])
          /\ getStoredHash(store', cwd) = CurrentHash(cwd)]_vars

\* C19: the uninstall command run in a directory that is not inside any repository
\* completes successfully: it exits with code 0 and reports 'uninstalled successfully'.
C19_UninstallOutsideRepository ==
  [][\A cwd \in Projects :
       CommandIn("uninstall", cwd) /\ ~isGitRepository(cwd)
         => out'.exit = 0 /\ HasLine(out'.stdout, MsgUninstalled[1])]_vars

\* C20: when an install command fails a precondition (cwd is not inside a repository, or
\* no supported lockfile is present) it exits with a non-zero code and leaves the
\* persisted state as it was: hook files, package.json and the stored fingerprints.
C20_FailedInstallChangesNothing ==
  [][\A cwd \in Projects, op \in {"install", "install-git-hooks"} :
       CommandIn(op, cwd) /\ (~isGitRepository(cwd) \/ ~HasLockfile(cwd))
         => /\ out'.exit # 0
            /\ hookFiles' = hookFiles /\ dirs' = dirs
            /\ pkg' = pkg
            /\ store' = store]_vars

----------------------------------------------------------------------------
(* Properties of what a check prints, checked under Spec *)

\* the eight lines of the warning block for a lockfile name
ExpectedWarningBox(name) ==
  << <<"=====================================">>,
     <<"DEPENDENCIES OUT OF DATE">>,
     <<"=====================================">>,
     <<"Lock file ", name, " has changed!">>,
     <<>>,
     <<"Run this command to update:">>,
     <<"  ", ExpectedCommand(name)>>,
     <<"=====================================">> >>

\* block occurs in lines as consecutive lines
HasBlock(lines, block) ==
  \E k \in 0..(Len(lines) - Len(block)) : SubSeq(lines, k + 1, k + Len(block)) = block

\* lines without the warning about node_modules
RECURSIVE WithoutNodeModulesWarning(_)
WithoutNodeModulesWarning(lines) ==
  IF lines = <<>> THEN <<>>
  ELSE IF Head(lines) = MsgNodeModules[1] THEN WithoutNodeModulesWarning(Tail(lines))
  ELSE <<Head(lines)>> \o WithoutNodeModulesWarning(Tail(lines))

\* C21: with silent on, a check prints none of the routine status messages
\* ('initialized', 'up to date', the auto-install progress lines): beside the warning
\* about node_modules it prints nothing to standard output, except that in the CHANGED
\* state with autoInstall off it prints the whole warning block.
C21_SilentMode ==
  [][\A cwd \in Projects :
       (CheckIn(cwd) /\ out'.silent)
         => IF out'.state = "CHANGED" /\ ~out'.autoInstall
            THEN WithoutNodeModulesWarning(out'.stdout)
                   = ExpectedWarningBox(ExpectedLockfile(lockfiles[cwd]))
            ELSE WithoutNodeModulesWarning(out'.stdout) = <<>>]_vars

C21_Witness ==
  /\ out.op = "check" /\ out.silent /\ ~out.isHook /\ ~out.autoInstall
  /\ out.state = "CHANGED"
  /\ HasBlock(out.stdout, ExpectedWarningBox("pnpm-lock.yaml"))

\* C22 as stated: a check in hook mode writes nothing to standard output when the
\* lockfile is unchanged, on first run, or when there is no lockfile, and prints the
\* warning block when the lockfile has changed.
C22_Original ==
  [][\A cwd \in Projects :
       (CheckIn(cwd) /\ out'.isHook)
         => IF IsChanged(cwd)
            THEN HasBlock(out'.stdout, ExpectedWarningBox(ExpectedLockfile(lockfiles[cwd])))
            ELSE out'.stdout = <<>>]_vars

\* C22 amended: a check in hook mode made when the lockfile is unchanged or on first run
\* writes nothing to standard output beside the warning about node_modules, and nothing
\* at all when there is no lockfile; when the lockfile has changed it prints the warning
\* block if autoInstall is off, and no warning block if autoInstall is on.
C22_HookMode ==
  [][\A cwd \in Projects :
       (CheckIn(cwd) /\ out'.isHook)
         => IF IsChanged(cwd)
            THEN ~out'.autoInstall
                   <=> HasBlock(out'.stdout,
                                ExpectedWarningBox(ExpectedLockfile(lockfiles[cwd])))
            ELSE /\ WithoutNodeModulesWarning(out'.stdout) = <<>>
                 /\ ~HasLockfile(cwd) => out'.stdout = <<>>]_vars

C22_Witness ==
  /\ out.op = "check" /\ out.isHook /\ ~out.silent
  /\ out.state = "UNCHANGED"
  /\ out.stdout = MsgNodeModules

----------------------------------------------------------------------------
(* Properties of the package.json functions, checked under SpecPkg *)

\* the step is a call of the package.json function op in cwd
PkgCall(op, cwd) == out'.op = op /\ out'.cwd = cwd

\* number of occurrences of the hook command in a script
HookCount(script) == CountInLine(script, LOCKFILE_GUARDIAN_HOOK)

RECURSIVE OtherCommands(_)
OtherCommands(script) ==
  IF script = <<>> THEN <<>>
  ELSE IF Head(script) \in Commands \ {LOCKFILE_GUARDIAN_HOOK}
       THEN <<Head(script)>> \o OtherCommands(Tail(script))
       ELSE OtherCommands(Tail(script))

\* C24: uninstallPostInstallHook on a package.json whose postinstall script contains the
\* hook command leaves a script that no longer contains it (isPostInstallHookInstalled is
\* false), keeps every other command in order, and deletes the postinstall key when
\* nothing else remains; a script that does not contain the hook is left unchanged.
C24_UninstallPostInstallHook ==
  [][\A cwd \in Projects :
       (PkgCall("uninstallPostInstallHook", cwd) /\ pkg[cwd].kind = "json")
         => LET S == pkg[cwd].postinstall
            IN IF includes(S, LOCKFILE_GUARDIAN_HOOK)
               THEN /\ ~isPostInstallHookInstalled(pkg'[cwd])
                    /\ OtherCommands(pkg'[cwd].postinstall) = OtherCommands(S)
                    /\ OtherCommands(S) = <<>> => pkg'[cwd].postinstall = Null
               ELSE pkg' = pkg]_vars

----------------------------------------------------------------------------
(* Properties of the Husky dialect, checked under SpecHooks *)

\* the last operation was an install in the Husky dialect
LastIsHuskyInstall == LastIsInstall /\ LastOp[2]

\* C25 as stated: in the Husky dialect an install into non-empty content without the
\* marker leaves the original content as an unmodified prefix, followed by a blank line,
\* the comment and the marker, so the marker line comes after every original line.
C25_Original ==
  LastIsHuskyInstall =>
    \A s \in GIT_HOOKS :
      (before[s] # Null /\ before[s] # EmptyStr /\ ~ContainsMarker(before[s]))
        => ActiveFiles[s] = before[s] \o <<EmptyLine, CommentLine, HookLine>>

\* C25 amended: in the Husky dialect an install into content that has no marker and at
\* least one non-whitespace character leaves the original content as an unmodified
\* prefix, followed by a blank line, the comment and the marker (content of whitespace
\* only is replaced by the synthesized Husky content).
C25_HuskyAppend ==
  LastIsHuskyInstall =>
    \A s \in GIT_HOOKS :
      (before[s] # Null /\ ~ContainsMarker(before[s]))
        => IF trim(before[s]) # EmptyStr
           THEN ActiveFiles[s] = before[s] \o <<EmptyLine, CommentLine, HookLine>>
           ELSE ActiveFiles[s] = <<CommentLine, HookLine, EmptyLine>>

C25_Witness ==
  /\ LastIsHuskyInstall
  /\ \E s \in GIT_HOOKS : /\ Len(NonBlankLines(before[s])) >= 2
                          /\ ~ContainsMarker(before[s])
                          /\ ActiveFiles[s] = before[s] \o <<EmptyLine, CommentLine, HookLine>>

----------------------------------------------------------------------------
(* Properties of the fingerprint file, checked under Spec *)

\* C26: storeCurrentHash run for a project in a strict subdirectory of the repository,
\* with a lockfile present, succeeds whether or not the storage directory under `.git`
\* exists, and a following getStoredHash for the project returns the written hash.
C26_WriteCreatesDirectories ==
  [][\A cwd \in Projects :
       (OperationIn(cwd) /\ out'.op = "store" /\ IsStrictSubdir(cwd) /\ HasLockfile(cwd))
         => /\ ~out'.threw
            /\ getStoredHash(store', cwd) = CurrentHash(cwd)]_vars

----------------------------------------------------------------------------
(* Properties of the slot loops, checked under SpecSlots *)

\* C27: when the file operations on one slot fail during installGitHooks or
\* uninstallGitHooks, the failure is surfaced and each of the other two slots is still
\* processed: after the install it contains the marker, after the uninstall it holds
\* neither the marker nor the comment.
C27_SlotsIndependent ==
  [][\A failing \in GIT_HOOKS :
       /\ (hist' # hist /\ out'.op = "installGitHooks" /\ out'.state = failing)
            => /\ out'.threw
               /\ \A s \in GIT_HOOKS \ {failing} : ContainsMarker(ActiveSlotsAfter[s])
       /\ (hist' # hist /\ out'.op = "uninstallGitHooks" /\ out'.state = failing)
            => /\ out'.threw
               /\ \A s \in GIT_HOOKS \ {failing} : ~MentionsGuardian(ActiveSlotsAfter[s])]_vars

----------------------------------------------------------------------------
(* Properties of the commands on an unparseable package.json, checked under SpecCli *)

\* some line of lines contains text
MentionsText(lines, text) == \E i \in 1..Len(lines) : includes(lines[i], text)

\* C28: with a package.json that cannot be parsed, the install command (once it has found
\* a lockfile) and the uninstall command both end in an error that carries the parse
\* error message: a non-zero exit code, no report of success, and package.json unchanged.
C28_ParseFailureIsFatal ==
  [][\A cwd \in Projects :
       /\ pkg[cwd].kind = "invalid"
       /\ \/ CommandIn("install", cwd) /\ HasLockfile(cwd)
          \/ CommandIn("uninstall", cwd)
       => /\ out'.exit # 0
          /\ MentionsText(out'.stderr, MsgPkgParseFailed)
          /\ ~HasLine(out'.stdout, MsgUninstalled[1])
          /\ ~HasLine(out'.stdout, MsgPostHookActive[1])
          /\ pkg' = pkg]_vars

----------------------------------------------------------------------------
(* Properties of a failed auto-install and of the fingerprint content, checked under Spec *)

\* C29: a check with autoInstall on made in the CHANGED state whose install subprocess
\* fails starts the install command, reports the failure on standard error together with
\* the manual install command (also when silent), does not throw and leaves the stored
\* fingerprint as it was, so the project is still in the CHANGED state.
C29_FailedAutoInstall ==
  [][\A cwd \in Projects :
       (CheckIn(cwd) /\ out'.autoInstall /\ ~out'.installOk /\ IsChanged(cwd))
         => LET name == ExpectedLockfile(lockfiles[cwd])
            IN /\ out'.state = "CHANGED"
               /\ out'.spawned = ExpectedCommand(name)
               /\ HasBlock(out'.stderr,
                           << <<"Failed to install dependencies. Please run manually:">>,
                              <<"  ", ExpectedCommand(name)>> >>)
               /\ ~HasLine(out'.stdout, MsgUpdated[1])
               /\ ~out'.threw /\ out'.exit = 0
               /\ store' = store
               /\ StillChanged(cwd)]_vars

C29_Witness ==
  /\ out.op = "check" /\ out.autoInstall /\ ~out.installOk /\ out.silent
  /\ out.state = "CHANGED" /\ out.spawned = "pnpm install"
  /\ HasLine(out.stderr, <<"  ", "pnpm install">>)
  /\ IsChanged(out.cwd)

\* the text in the fingerprint file of cwd, Null when there is no such file
FingerprintFile(cwd) ==
  LET dataPath == getGuardianDataPath(cwd)
  IN IF existsSync(store, dataPath) /\ ~readFileSync(store, dataPath).threw
     THEN readFileSync(store, dataPath).value ELSE Null

\* C30: whatever text the fingerprint file holds, a check with a lockfile present does
\* not fail and never takes the FIRST_RUN branch: it is UNCHANGED when the value
\* getStoredHash returns equals the current hash and CHANGED otherwise, and it leaves the
\* file as it is.
C30_OpaqueFingerprint ==
  [][\A cwd \in Projects :
       (CheckIn(cwd) /\ HasLockfile(cwd) /\ FingerprintFile(cwd) # Null)
         => /\ ~out'.threw
            /\ out'.state = (IF getStoredHash(store, cwd) = CurrentHash(cwd)
                             THEN "UNCHANGED" ELSE "CHANGED")
            /\ store' = store]_vars

----------------------------------------------------------------------------
(* C31: reading the fingerprint never throws *)

\* the fingerprint file of cwd holds a string
FingerprintStored(cwd) ==
  isGitRepository(cwd) /\ getStoredHash(store, cwd) # Null

\* C31: from every working directory, inside a repository or not, getStoredHash returns
\* the stored string or null and never throws, and clearStoredHash of an absent
\* fingerprint changes nothing and does not fail
C31_ReadNeverThrows ==
  [][\A cwd \in AllDirs :
       /\ (OperationIn(cwd) /\ out'.op = "getStoredHash")
            => /\ ~out'.threw
               /\ IF FingerprintStored(cwd)
                  THEN out'.state = "string" /\ out'.stdout = getStoredHash(store, cwd)
                  ELSE out'.state = "null"
       /\ (OperationIn(cwd) /\ out'.op = "clear" /\ ~FingerprintStored(cwd))
            => ~out'.threw /\ store' = store]_vars

----------------------------------------------------------------------------
(* C32: findGitRoot *)

\* d is cwd or a directory above it, the filesystem root included
IsOnPathUp(d, cwd) ==
  \/ d = cwd
  \/ d = FsRoot
  \/ /\ Len(d) < Len(cwd)
     /\ SubSeq(cwd, 1, Len(d)) = d
     /\ cwd[Len(d) + 1] = "/"

\* the directories on the path from cwd up to the root that contain a `.git` directory
GitDirsOnPath(gitMeta, cwd) ==
  {d \in DOMAIN gitMeta : IsOnPathUp(d, cwd) /\ gitMeta[d] = "dir"}

\* C32: findGitRoot returns the nearest directory on the path from the start (inclusive)
\* up to and including the filesystem root that contains a `.git` directory, or null when
\* no directory on that path contains one
C32_FindGitRoot ==
  out.op = "findGitRoot"
    => LET found == GitDirsOnPath(out.gitMeta, out.cwd)
       IN IF found = {} THEN out.value = Null
          ELSE /\ out.value \in found
               /\ \A d \in found : Len(d) <= Len(out.value)

----------------------------------------------------------------------------
(* C33: exit codes of the check command *)

\* C33: the check command exits 0 when it ends in one of the normal outcomes (initialized,
\* up to date, warning shown) and exits with a non-zero code when no supported lockfile
\* exists
C33_ExitCodes ==
  [][\A cwd \in Projects :
       CheckIn(cwd)
         => /\ (~out'.threw /\ out'.state \in {"FIRST_RUN", "UNCHANGED", "CHANGED"})
                 => out'.exit = 0
            /\ ~HasLockfile(cwd) => out'.exit # 0]_vars

----------------------------------------------------------------------------
(* C34: insertion in the traditional dialect, checked under SpecHooks *)

\* the last operation was an install in the traditional dialect
LastIsTraditionalInstall == LastIsInstall /\ ~LastOp[2]

\* c has a line that begins with `#!`
HasDirective(c) == \E i \in 1..Len(c) : startsWithShebang(c[i])

\* the index of the first line of c that begins with `#!`
FirstDirective(c) ==
  CHOOSE i \in 1..Len(c) :
    startsWithShebang(c[i]) /\ \A j \in 1..(i - 1) : ~startsWithShebang(c[j])

\* blank line, comment and marker placed right after the first directive of c, or the
\* synthesized directive, blank line, comment and marker placed in front of c
TraditionalInsertion(c) ==
  IF HasDirective(c)
  THEN SubSeq(c, 1, FirstDirective(c)) \o <<EmptyLine, CommentLine, HookLine>>
       \o SubSeq(c, FirstDirective(c) + 1, Len(c))
  ELSE <<HOOK_SHEBANG, EmptyLine, CommentLine, HookLine>> \o c

\* C34 as stated: in the traditional dialect an install into non-empty content without the
\* marker puts a blank line, the comment and the marker right after the first line that
\* begins with `#!`, or, when there is no such line, puts the synthesized directive, a
\* blank line, the comment and the marker in front of all original lines.
C34_Original ==
  LastIsTraditionalInstall =>
    \A s \in GIT_HOOKS :
      (before[s] # Null /\ before[s] # EmptyStr /\ ~ContainsMarker(before[s]))
        => ActiveFiles[s] = TraditionalInsertion(before[s])

\* C34 amended: in the traditional dialect an install into content that has no marker and
\* at least one non-whitespace character puts a blank line, the comment and the marker
\* right after the first line that begins with `#!`, or the synthesized directive, a blank
\* line, the comment and the marker in front of all original lines when no line begins
\* with `#!` (content of whitespace only is replaced by the synthesized content).
C34_TraditionalInsert ==
  LastIsTraditionalInstall =>
    \A s \in GIT_HOOKS :
      (before[s] # Null /\ ~ContainsMarker(before[s]))
        => IF trim(before[s]) # EmptyStr
           THEN ActiveFiles[s] = TraditionalInsertion(before[s])
           ELSE ActiveFiles[s] = <<HOOK_SHEBANG, EmptyLine, CommentLine, HookLine, EmptyLine>>

C34_Witness ==
  /\ LastIsTraditionalInstall
  /\ \E s \in GIT_HOOKS : /\ ~ContainsMarker(before[s])
                          /\ HasDirective(before[s])
                          /\ FirstDirective(before[s]) = 2
                          /\ Len(before[s]) = 3
                          /\ ~IsBlankLine(before[s][3])
                          /\ ActiveFiles[s] = TraditionalInsertion(before[s])

----------------------------------------------------------------------------
(* C35: the dialect matches the directory written, checked under SpecHooks *)

\* C35: installGitHooks and uninstallGitHooks use the Husky dialect if and only if the
\* active hooks directory is the `.husky` directory of the repository, also when
\* core.hooksPath names `.husky` and that directory did not exist before the operation
C35_DialectMatchesDirectory ==
  hist # <<>> => (LastOp[2] <=> getActiveHooksDir(dirs, coreHooksPath) = HuskyDir)

----------------------------------------------------------------------------
(* C36: auto-install converges, checked under SpecAuto *)

\* the lockfile of the project has content c, and the last operation was a check that found
\* it changed and ran the install subprocess to a zero exit
InstalledFor(c) ==
  /\ lockfiles[GitRoot]["package-lock.json"] = c
  /\ out.op = "check" /\ out.state = "CHANGED" /\ out.autoInstall
  /\ out.spawned # "" /\ out.installOk

\* the stored fingerprint is the hash of content c, or the lockfile no longer has content c
SettledFor(c) ==
  \/ getStoredHash(store, GitRoot) = createSHA256Hash(c)
  \/ lockfiles[GitRoot]["package-lock.json"] # c

\* C36: with autoInstall on, once a check in the CHANGED state has run the install
\* subprocess to a zero exit, the project eventually is UNCHANGED for that lockfile content
\* (so later hook-triggered checks start no further install), however the tool was installed
C36_AutoInstallConverges ==
  \A c \in 1..NumContents : InstalledFor(c) ~> SettledFor(c)

----------------------------------------------------------------------------
(* C37, C39: projects in subdirectories of one repository, checked under SpecMono *)

\* this step is a check started by a git hook
HookStep == lockfiles' = lockfiles /\ out'.op = "check" /\ out'.isHook

\* C37: when the lockfile of a project P in a subdirectory has changed since P's
\* fingerprint was stored, a check started by a git hook (the marker command, run in the
\* repository root) detects P's change: it is CHANGED and prints the warning block that
\* names P's lockfile
C37_HookDetectsSubproject ==
  [][\A P \in Projects :
       (HookStep /\ IsStrictSubdir(P) /\ IsChanged(P))
         => /\ out'.state = "CHANGED"
            /\ HasBlock(out'.stdout, ExpectedWarningBox(ExpectedLockfile(lockfiles[P])))]_vars

\* C39: uninstall run in project A leaves the fingerprint and the package.json of every
\* other project B of the repository as they were, and every hook slot that held the
\* marker command still holds it
C39_UninstallFrame ==
  [][\A A \in Projects, B \in Projects :
       (A # B /\ CommandIn("uninstall", A))
         => /\ getStoredHash(store', B) = getStoredHash(store, B)
            /\ pkg'[B] = pkg[B]
            /\ \A s \in GIT_HOOKS :
                 ContainsMarker(ActiveFiles[s]) => ContainsMarker(ActiveSlotsAfter[s])]_vars

----------------------------------------------------------------------------
(* C38: a change of the governing lockfile, checked under Spec *)

\* in this step a lockfile appears in cwd that has a higher priority than the lockfile
\* detected so far, which stays as it is, while the fingerprint stored for cwd was taken
\* from the lockfiles as they were before the step
HigherLockfileAppears(cwd) ==
  /\ initLock[cwd] /\ getStoredHash(store, cwd) # Null
  /\ HasLockfile(cwd)
  /\ lockfiles[cwd][ExpectedLockfile(lockfiles'[cwd])] = 0
  /\ lockfiles'[cwd][ExpectedLockfile(lockfiles[cwd])]
       = lockfiles[cwd][ExpectedLockfile(lockfiles[cwd])]

\* C38: when the fingerprint was taken while a lower-priority lockfile was the detected
\* one and a higher-priority lockfile then appears, the next check is CHANGED and its
\* warning names the newly detected lockfile and its install command, whatever the
\* content of the two files
C38_GoverningLockfileChange ==
  [][\A cwd \in Projects :
       HigherLockfileAppears(cwd)
         => LET r == checkLockfile(store', lockfiles'[cwd], FALSE, cwd, DefaultConfig,
                                   TRUE, TRUE)
            IN /\ r.state = "CHANGED"
               /\ HasBlock(r.stdout,
                           ExpectedWarningBox(ExpectedLockfile(lockfiles'[cwd])))]_vars

====
